---- MODULE Spec2Model ----
(***************************************************************************)
(* Personal-finance REST API (techbridge-back): the read-through response  *)
(* cache (middleware/cache.js), the authentication middleware              *)
(* (middleware/auth.js) and the controllers that mutate the data the       *)
(* cached routes read.                                                     *)
(*                                                                         *)
(* Strings are sequences of pieces.  A piece is one of the words below or  *)
(* a single character; no piece is a concatenation of other pieces and no  *)
(* piece occurs inside another, so two sequences are equal exactly when    *)
(* the strings they spell are equal, and glob matching on pieces is glob   *)
(* matching on the characters.                                             *)
(***************************************************************************)
EXTENDS Integers, Sequences, FiniteSets, TLC

VARIABLES
    users,         \* users table: id -> role, or NoRow
    categories,    \* categories table: id -> type, or NoRow
    transactions,  \* transactions table: id -> row, or NoRow
    nextTxId,      \* the SERIAL sequence of transactions.id
    isOpen,        \* client.isOpen of the Redis client
    cache,         \* the Redis keyspace: key -> entry
    reqs,          \* the requests in flight: id -> request
    events,        \* requests issued, faults and store events so far
    last,          \* the response delivered last
    probe,         \* a cache key composition (SpecKey)
    proc           \* the server process: where it is, and how it ended

vars == <<users, categories, transactions, nextTxId, isOpen, cache, reqs, events, last, probe, proc>>

-----------------------------------------------------------------------------
(* Bounds *)

\* requests issued, failed database and store commands, and events of the
\* store (an expiry, a disconnection, a reconnection), in one behaviour
MaxEvents == 3
\* requests in flight at the same time
MaxInFlight == 2
\* rows the transactions table can hold (ids 1..MaxTx)
MaxTx == 1
\* rows of the users table (ids 1..MaxUsers)
MaxUsers == 2
\* rows of the categories table (ids 1..MaxCats)
MaxCats == 2
\* largest principal id of a composed key (two digits)
MaxKeyId == 12
\* pieces of a probed URL after "/api"
MaxUrlLen == 2
\* characters of the limit parameter of a query (LimitQueries)
MaxLimitLen == 3
\* characters of the page parameter of a query (PageQueries)
MaxPageLen == 2
\* rows the COUNT(*) of getTransactions can report (0..MaxItems)
MaxItems == 6

-----------------------------------------------------------------------------
(* Strings *)

Digits == <<"0", "1", "2", "3", "4", "5", "6", "7", "8", "9">>

RECURSIVE IdString(_)
\* the id as the template literal prints it: its decimal digits
IdString(n) ==
    IF n < 10 THEN <<Digits[n + 1]>>
    ELSE IdString(n \div 10) \o <<Digits[(n % 10) + 1]>>

NoUser == [id |-> 0, role |-> "none"]

\* the key without the delimiter between the URL and the principal
CacheKey_NoDelimiter(url, user) ==
    <<"cache", ":">> \o url
        \o (IF user.id # 0 THEN IdString(user.id) ELSE <<"anonymous">>)

\* `cache:${req.originalUrl}:${req.user?.id || 'anonymous'}`
CacheKey(url, user) ==
    <<"cache", ":">> \o url \o <<":">>
        \o (IF user.id # 0 THEN IdString(user.id) ELSE <<"anonymous">>)

RECURSIVE GlobMatch(_, _)
\* Redis KEYS pattern matching, for patterns whose only wildcard is "*"
GlobMatch(p, s) ==
    IF p = <<>> THEN s = <<>>
    ELSE IF Head(p) = "*"
         THEN GlobMatch(Tail(p), s) \/ (s # <<>> /\ GlobMatch(p, Tail(s)))
         ELSE s # <<>> /\ Head(s) = Head(p) /\ GlobMatch(Tail(p), Tail(s))

\* the userId argument of the clear* functions: an id, or '*' (0 here)
ScopeStr(userId) == IF userId = 0 THEN <<"*">> ELSE IdString(userId)

\* clearUserCache: `cache:*:${userId}`
UserPattern(userId) == <<"cache", ":", "*", ":">> \o ScopeStr(userId)

\* clearAnalyticsCache: `cache:*/analytics*:${userId}`
AnalyticsPattern(userId) ==
    <<"cache", ":", "*", "/analytics", "*", ":">> \o ScopeStr(userId)

\* a pattern without the principal: `cache:*/transactions*`
TransactionPattern_AnyPrincipal(userId) ==
    <<"cache", ":", "*", "/transactions", "*">>

\* clearTransactionCache: `cache:*/transactions*:${userId}`
TransactionPattern(userId) ==
    <<"cache", ":", "*", "/transactions", "*", ":">> \o ScopeStr(userId)

-----------------------------------------------------------------------------
(* Data *)

Roles == {"admin", "user", "read-only"}
Types == {"income", "expense"}
NoRow == "none"
NoTx == [user_id |-> 0, category_id |-> 0, type |-> "none", amount |-> 0]

UserIds == 1..MaxUsers
CatIds == 1..MaxCats
TxIds == 1..MaxTx
Amounts == {1, 2}
\* ids a request can name that no row has
MissingUser == MaxUsers + 1
MissingCat == MaxCats + 1

\* the database the pool queries, as one value
Database == [users |-> users, categories |-> categories, transactions |-> transactions]

\* res.json bodies: { success, message, data }
Body(success, message, data) == [success |-> success, message |-> message, data |-> data]
NoBody == Body(FALSE, "", {})
Response(status, body) == [status |-> status, body |-> body]

InternalServerError == Response(500, Body(FALSE, "Internal server error", {}))

\* cacheMiddleware(ttl) of the cached routes
TtlTransactions == 300
TtlTransaction == 600
TtlCategories == 3600
TtlAdminUsers == 300
TtlAnalytics == 900

\* JSON.stringify(data) / JSON.parse(cachedData): what the store holds is the
\* body alone; the status set by res.status() is not part of it
Corrupt == [json |-> FALSE, data |-> NoBody]
JSONstringify(data) == [json |-> TRUE, data |-> data]
JSONparses(text) == text.json
JSONparse(text) == text.data

-----------------------------------------------------------------------------
(* Retrieval handlers: the response computed from the rows read *)

\* getTransactions: rows of the effective user, joined with their category
GetTransactions(user, query_user_id, db) ==
    LET userId == IF user.role = "admin" /\ query_user_id # 0
                  THEN query_user_id ELSE user.id
        rows == {[id |-> t,
                  amount |-> db.transactions[t].amount,
                  type |-> db.transactions[t].type,
                  category_id |-> db.transactions[t].category_id] :
                 t \in {x \in TxIds : /\ db.transactions[x] # NoTx
                                      /\ db.transactions[x].user_id = userId
                                      /\ db.categories[db.transactions[x].category_id] # NoRow}}
    IN  Response(200, Body(TRUE, "", rows))

\* getTransaction: one row by id; other users' rows only for an admin
GetTransaction(user, id, db) ==
    LET found == /\ id \in TxIds
                 /\ db.transactions[id] # NoTx
                 /\ db.categories[db.transactions[id].category_id] # NoRow
                 /\ (user.role # "admin" => db.transactions[id].user_id = user.id)
    IN  IF ~found
        THEN Response(404, Body(FALSE, "Transaction not found", {}))
        ELSE Response(200, Body(TRUE, "",
                 {[id |-> id,
                   user_id |-> db.transactions[id].user_id,
                   amount |-> db.transactions[id].amount,
                   type |-> db.transactions[id].type,
                   category_id |-> db.transactions[id].category_id]}))

\* getCategories: every category
GetCategories(db) ==
    Response(200, Body(TRUE, "",
        {[id |-> c, type |-> db.categories[c]] : c \in {x \in CatIds : db.categories[x] # NoRow}}))

\* getUsers: every user with its role
GetUsers(db) ==
    Response(200, Body(TRUE, "",
        {[id |-> u, role |-> db.users[u]] : u \in {x \in UserIds : db.users[x] # NoRow}}))

\* getDashboardSummary: the analytics controller is not among the sources;
\* its payload is opaque, and nothing below depends on what it holds
GetDashboardSummary(user, db) == Response(200, Body(TRUE, "", {"dashboard"}))

\* the cached routes: router.get(path, authenticateToken, [requireRole],
\* limiter, cacheMiddleware(ttl), handler)
Route(op, url, ttl, admin, query_user_id, id) ==
    [op |-> op, url |-> url, ttl |-> ttl, admin |-> admin,
     query_user_id |-> query_user_id, id |-> id]

GetRoutes ==
    { Route("getTransactions", <<"/api", "/transactions">>, TtlTransactions, FALSE, 0, 0),
      Route("getTransactions", <<"/api", "/transactions", "?user_id=", "2">>,
            TtlTransactions, FALSE, 2, 0),
      Route("getTransaction", <<"/api", "/transactions", "/", "1">>, TtlTransaction, FALSE, 0, 1),
      Route("getCategories", <<"/api", "/categories">>, TtlCategories, FALSE, 0, 0),
      Route("getUsers", <<"/api", "/admin", "/users">>, TtlAdminUsers, TRUE, 0, 0),
      Route("getDashboardSummary", <<"/api", "/analytics", "/dashboard">>,
            TtlAnalytics, FALSE, 0, 0) }

\* what the route's handler answers when its queries succeed
HandlerResponse(op, user, query_user_id, id, db) ==
    CASE op = "getTransactions" -> GetTransactions(user, query_user_id, db)
      [] op = "getTransaction" -> GetTransaction(user, id, db)
      [] op = "getCategories" -> GetCategories(db)
      [] op = "getUsers" -> GetUsers(db)
      [] op = "getDashboardSummary" -> GetDashboardSummary(user, db)

-----------------------------------------------------------------------------
(* Requests *)

\* a command of the database or of the store may fail while the budget lasts
Faults == IF events < MaxEvents THEN BOOLEAN ELSE {FALSE}
Charge(fault) == events' = IF fault THEN events + 1 ELSE events

\* req.body of the mutating routes
Input(valid, type, category_id, user_id, amount, role) ==
    [valid |-> valid, type |-> type, category_id |-> category_id,
     user_id |-> user_id, amount |-> amount, role |-> role]
NoInput == Input(TRUE, "none", 0, 0, 0, "none")

\* One request on its way through its route's chain.  The field n and the
\* fields after "keys" are history: they record what happened, nothing reads
\* them to act.
NewRequest(op, method, url, ttl, admin, write, uid, query_user_id, id, body) ==
    [op |-> op, method |-> method, url |-> url, ttl |-> ttl,
     admin |-> admin, write |-> write,
     uid |-> uid, query_user_id |-> query_user_id, id |-> id, body |-> body,
     n |-> 0, pc |-> "issue", user |-> NoUser, key |-> <<>>, capture |-> FALSE,
     status |-> 0, payload |-> NoBody, target |-> 0,
     pending |-> <<>>, keys |-> {},
     via |-> "none", calls |-> 0, committed |-> FALSE, patterns |-> {},
     gets |-> 0, sets |-> 0, stored |-> FALSE, quiet |-> TRUE,
     wasOpen |-> FALSE, dels |-> 0, clean |-> TRUE, overwrote |-> FALSE,
     matched |-> -1, returned |-> [defined |-> FALSE, value |-> 0],
     hasPrior |-> FALSE, prior |-> NoBody, pre |-> "none", after |-> "none",
     handled |-> Response(0, NoBody), fresh |-> Response(0, NoBody)]

NoRequest ==
    [NewRequest("none", "none", <<>>, 0, FALSE, FALSE, 0, 0, 0, NoInput) EXCEPT !.pc = "none"]

InFlight == DOMAIN reqs

IsRetrieval(r) ==
    r.op \in {"getTransactions", "getTransaction", "getCategories", "getUsers",
              "getDashboardSummary"}
IsMutation(r) ==
    r.op \in {"createTransaction", "updateTransaction", "deleteTransaction", "updateUserRole"}

\* the other requests in flight, told that the store changed under them
Others(i, disturbed) ==
    [j \in InFlight \ {i} |->
        IF disturbed THEN [reqs[j] EXCEPT !.quiet = FALSE] ELSE reqs[j]]

\* request i goes on as r2
Goto(i, r2, disturbed) ==
    reqs' = [j \in InFlight |-> IF j = i THEN r2 ELSE Others(i, disturbed)[j]]

\* request i is answered: r2 carries the response
Finish(i, r2, disturbed) ==
    /\ last' = [r2 EXCEPT !.pc = "done"]
    /\ reqs' = Others(i, disturbed)

Answer(r, response) == [r EXCEPT !.status = response.status, !.payload = response.body]

-----------------------------------------------------------------------------
(* The store *)

\* an entry written with the default of cacheMiddleware(ttl = 900)
Entry_DefaultTtl(value, ttl, r) ==
    [value |-> value, ttl |-> 900, age |-> 0,
     op |-> r.op, uid |-> r.user.id, query_user_id |-> r.query_user_id, id |-> r.id,
     admin |-> r.admin, status |-> r.status, staleBy |-> 0, raced |-> FALSE]

\* what SETEX leaves under the key: the value, its time to live in seconds,
\* and the seconds it has lived
Entry(value, ttl, r) ==
    [value |-> value, ttl |-> ttl, age |-> 0,
     \* history: who wrote it, from which response, and whether it was
     \* written with a payload that a mutation had outdated and after that
     \* mutation's clearCache calls
     op |-> r.op, uid |-> r.user.id, query_user_id |-> r.query_user_id, id |-> r.id,
     admin |-> r.admin, status |-> r.status, staleBy |-> 0, raced |-> FALSE]

\* client.setEx(key, ttl, value)
SetEx(c, key, entry) ==
    [k \in DOMAIN c \cup {key} |-> IF k = key THEN entry ELSE c[k]]

\* client.keys(pattern)
Keys(c, pattern) == {k \in DOMAIN c : GlobMatch(pattern, k)}

\* a del that deletes nothing
Del_Nothing(c, keys) == c

\* client.del(keys)
Del(c, keys) == [k \in DOMAIN c \ keys |-> c[k]]

\* History: the mutation of request n commits and turns the entries whose
\* payload it changes into pre-mutation payloads of that mutation.
MarkStale(c, n, old, new) ==
    [k \in DOMAIN c |->
        LET e == c[k]
            role == new.users[e.uid]
            user == [id |-> e.uid, role |-> role]
        IN  IF /\ e.status = 200
               /\ JSONparses(e.value)
               /\ role # NoRow
               /\ old.users[e.uid] = role
               /\ (e.admin => role = "admin")
               /\ JSONparse(e.value) = HandlerResponse(e.op, user, e.query_user_id, e.id, old).body
               /\ JSONparse(e.value) # HandlerResponse(e.op, user, e.query_user_id, e.id, new).body
            THEN [e EXCEPT !.staleBy = n]
            ELSE e]

-----------------------------------------------------------------------------
(* middleware/auth.js *)

\* a guard that only asks for a principal, whatever its role
RequireRole_AnyRole(r) ==
    IF r.user = NoUser THEN Response(401, Body(FALSE, "Authentication required", {}))
    ELSE Response(0, NoBody)

\* requireRole(['admin']): the response that stops the request, if any
RequireRole(r) ==
    IF r.user = NoUser THEN Response(401, Body(FALSE, "Authentication required", {}))
    ELSE IF r.user.role # "admin" THEN Response(403, Body(FALSE, "Access denied", {}))
    ELSE Response(0, NoBody)

\* a guard that only asks for a principal
RequireWriteAccess_AnyRole(r) ==
    IF r.user = NoUser THEN Response(401, Body(FALSE, "Authentication required", {}))
    ELSE Response(0, NoBody)

\* requireWriteAccess
RequireWriteAccess(r) ==
    IF r.user = NoUser THEN Response(401, Body(FALSE, "Authentication required", {}))
    ELSE IF r.user.role = "read-only"
         THEN Response(403, Body(FALSE, "Read-only users cannot modify data", {}))
    ELSE Response(0, NoBody)

\* the synchronous start of the route's handler, up to its first query:
\* validationResult(req) and the choice of that query
EnterHandler(r) ==
    CASE r.op = "createTransaction" ->
            IF ~r.body.valid
            THEN [Answer(r, Response(400, Body(FALSE, "Validation failed", {})))
                    EXCEPT !.pc = "respond"]
            ELSE IF r.user.role = "admin" /\ r.body.user_id # 0
                 THEN [r EXCEPT !.pc = "createTransaction:user", !.target = r.body.user_id]
                 ELSE [r EXCEPT !.pc = "createTransaction:category", !.target = r.user.id]
      [] r.op = "updateTransaction" ->
            IF ~r.body.valid
            THEN [Answer(r, Response(400, Body(FALSE, "Validation failed", {})))
                    EXCEPT !.pc = "respond"]
            ELSE [r EXCEPT !.pc = "updateTransaction:check"]
      [] r.op = "deleteTransaction" -> [r EXCEPT !.pc = "deleteTransaction:check"]
      [] r.op = "deleteCategory" -> [r EXCEPT !.pc = "deleteCategory:check"]
      [] r.op = "deleteUser" -> [r EXCEPT !.pc = "deleteUser:check"]
      [] r.op = "updateCategory" ->
            IF ~r.body.valid
            THEN [Answer(r, Response(400, Body(FALSE, "Validation failed", {})))
                    EXCEPT !.pc = "respond"]
            ELSE [r EXCEPT !.pc = "updateCategory:check"]
      [] r.op = "updateUserRole" ->
            IF r.body.role \notin Roles
            THEN [Answer(r, Response(400, Body(FALSE, "Invalid role", {})))
                    EXCEPT !.pc = "respond"]
            ELSE [r EXCEPT !.pc = "updateUserRole:check"]
      [] OTHER -> [r EXCEPT !.pc = "cacheMiddleware"]

\* the guards between authenticateToken and the handler
Guards(r) ==
    IF r.admin /\ RequireRole(r).status # 0
    THEN [Answer(r, RequireRole(r)) EXCEPT !.pc = "respond"]
    ELSE IF r.write /\ RequireWriteAccess(r).status # 0
         THEN [Answer(r, RequireWriteAccess(r)) EXCEPT !.pc = "respond"]
         ELSE EnterHandler(r)

\* authenticateToken that believes the token: a token issued to an admin
\* makes an admin, and the users table is not read
AuthenticateToken_TokenRole(r, dbError) ==
    IF dbError
    THEN [Answer(r, Response(500, Body(FALSE, "Authentication error", {})))
            EXCEPT !.pc = "respond"]
    ELSE Guards([r EXCEPT !.user = [id |-> r.uid, role |-> "admin"]])

\* authenticateToken, for a request with a valid token of user r.uid, and
\* what follows it in the same turn of the event loop
AuthenticateToken(r, dbError) ==
    IF dbError
    THEN [Answer(r, Response(500, Body(FALSE, "Authentication error", {})))
            EXCEPT !.pc = "respond"]
    ELSE IF r.uid \notin UserIds \/ users[r.uid] = NoRow
         THEN [Answer(r, Response(401, Body(FALSE, "User not found", {})))
                 EXCEPT !.pc = "respond"]
         ELSE Guards([r EXCEPT !.user = [id |-> r.uid, role |-> users[r.uid]]])

-----------------------------------------------------------------------------
(* middleware/cache.js: cacheMiddleware *)

\* a catch block that answers the error instead of calling next()
OnCacheError_Respond(r) ==
    [r EXCEPT !.status = 500, !.payload = Body(FALSE, "Internal server error", {}),
              !.pc = "respond", !.via = "error"]

\* what the catch block does with an error of client.get or JSON.parse
OnCacheError(r) == [r EXCEPT !.pc = "handler", !.via = "error"]

\* a hit that goes on to the handler all the same
OnCacheHit_CallsHandler(r, cachedData) == [r EXCEPT !.pc = "handler", !.via = "hit"]

\* a hit without its return: the cached payload is sent, then res.json is
\* overridden and next() is called
OnCacheHit_FallsThrough(r, cachedData) ==
    [Answer(r, Response(200, JSONparse(cachedData))) EXCEPT
        !.pc = "handler", !.via = "hit", !.capture = TRUE]

\* the cache hit: res.json(JSON.parse(cachedData))
OnCacheHit(r, cachedData) ==
    [Answer(r, Response(200, JSONparse(cachedData))) EXCEPT !.pc = "respond", !.via = "hit"]

\* the cache miss: res.json is overridden, then next()
OnCacheMiss(r) == [r EXCEPT !.pc = "handler", !.via = "miss", !.capture = TRUE]

\* a skip that overrides res.json all the same
SkipCache_Captures(r) == [r EXCEPT !.pc = "handler", !.via = "skip", !.capture = TRUE]

\* the request does not go through the cache: next()
SkipCache(r) == [r EXCEPT !.pc = "handler", !.via = "skip"]

CacheMiddleware(i) ==
    /\ reqs[i].pc = "cacheMiddleware"
    /\ \E getFails \in Faults :
        /\ Charge(getFails)
        /\ LET r == reqs[i]
               cacheKey == CacheKey(r.url, r.user)
               ro == [r EXCEPT !.wasOpen = isOpen]
               rk == [ro EXCEPT !.key = cacheKey, !.gets = r.gets + 1]
               r2 == IF r.method # "GET" THEN SkipCache(ro)
                     ELSE IF ~isOpen THEN SkipCache(ro)
                     ELSE IF getFails THEN OnCacheError(rk)
                     ELSE IF cacheKey \in DOMAIN cache
                          THEN IF JSONparses(cache[cacheKey].value)
                               THEN [OnCacheHit(rk, cache[cacheKey].value) EXCEPT
                                       !.stored = TRUE,
                                       !.fresh = HandlerResponse(r.op, r.user, r.query_user_id,
                                                                 r.id, Database),
                                       !.handled = Response(cache[cacheKey].status,
                                                            JSONparse(cache[cacheKey].value))]
                               ELSE OnCacheError(rk)
                          ELSE OnCacheMiss(rk)
           IN  /\ (getFails => r.method = "GET" /\ isOpen)
               /\ IF r2.pc = "respond"
                  THEN Finish(i, r2, FALSE)
                  ELSE Goto(i, r2, FALSE) /\ UNCHANGED last
    /\ UNCHANGED <<users, categories, transactions, nextTxId, isOpen, cache, probe, proc>>

\* the retrieval handler's queries: the response it is about to send
Handler(i) ==
    /\ reqs[i].pc = "handler"
    /\ IsRetrieval(reqs[i])
    /\ \E dbError \in Faults :
        /\ Charge(dbError)
        /\ LET r == reqs[i]
               response == IF dbError THEN InternalServerError
                           ELSE HandlerResponse(r.op, r.user, r.query_user_id, r.id, Database)
           IN  Goto(i, [Answer(r, response) EXCEPT !.pc = "json", !.calls = r.calls + 1,
                                                    !.handled = response],
                    FALSE)
    /\ UNCHANGED <<users, categories, transactions, nextTxId, isOpen, cache, last, probe, proc>>

\* an overridden res.json that writes only when the key holds nothing
CachesResponse_IfAbsent(r) == r.capture /\ isOpen /\ r.key \notin DOMAIN cache

\* whether the overridden res.json writes the data it is given to the store
CachesResponse(r) == r.capture /\ isOpen

\* the handler's res.json(data): the overridden one when the request missed
ResJson(i) ==
    /\ reqs[i].pc = "json"
    /\ \E setFails \in Faults :
        /\ Charge(setFails)
        /\ LET r == reqs[i]
               set == CachesResponse(r) /\ ~setFails
               now == IF IsRetrieval(r)
                      THEN HandlerResponse(r.op, r.user, r.query_user_id, r.id, Database)
                      ELSE r.handled
               entry == [Entry(JSONstringify(r.payload), r.ttl, r) EXCEPT
                           !.raced = /\ r.status = 200 /\ r.payload # now.body
                                     /\ \A j \in InFlight : ~reqs[j].committed]
               r2 == [r EXCEPT !.stored = set,
                               !.overwrote = set /\ r.key \in DOMAIN cache,
                               !.sets = IF CachesResponse(r) THEN r.sets + 1 ELSE r.sets,
                               !.fresh = IF IsRetrieval(r)
                                         THEN HandlerResponse(r.op, r.user, r.query_user_id,
                                                              r.id, Database)
                                         ELSE r.handled]
           IN  /\ (setFails => CachesResponse(r))
               /\ cache' = IF set
                           THEN SetEx(cache, r.key, entry)
                           ELSE cache
               /\ Finish(i, r2, set)
    /\ UNCHANGED <<users, categories, transactions, nextTxId, isOpen, probe, proc>>

-----------------------------------------------------------------------------
(* middleware/cache.js: clearCache and its callers *)

\* what a call resolves with: a count, or undefined
Count(n) == [defined |-> TRUE, value |-> n]
Undefined == [defined |-> FALSE, value |-> 0]

\* after one clearCache call of the handler: the next one, or the response.
\* A clearCache call that finds the client closed returns at once.
NextClear(r) ==
    IF Len(r.pending) <= 1 \/ ~isOpen
    THEN [r EXCEPT !.pending = <<>>, !.keys = {}, !.pc = "respond",
                   !.clean = r.clean /\ Len(r.pending) <= 1, !.returned = Undefined]
    ELSE [r EXCEPT !.pending = Tail(r.pending), !.keys = {}, !.pc = "clearCache:keys",
                   !.returned = Undefined]

\* a clearCache that lets the error of client.keys or client.del reach the
\* handler that awaits it: the handler's catch block answers
OnClearError_Throws(r) ==
    [r EXCEPT !.status = 500, !.payload = Body(FALSE, "Internal server error", {}),
              !.pending = <<>>, !.keys = {}, !.pc = "respond", !.clean = FALSE]

\* clearCache's catch block: the error is logged, the call returns
OnClearError(r) == NextClear([r EXCEPT !.clean = FALSE])

\* the mutation has committed: the handler's clearCache calls, then its response
AfterCommit(r, response, patterns) ==
    LET r2 == [Answer(r, response) EXCEPT !.committed = TRUE, !.handled = response,
                                          !.patterns = {patterns[n] : n \in DOMAIN patterns},
                                          !.pending = patterns]
    IN  IF patterns = <<>> \/ ~isOpen
        THEN [r2 EXCEPT !.pending = <<>>, !.pc = "respond", !.clean = patterns = <<>>]
        ELSE [r2 EXCEPT !.pc = "clearCache:keys"]

\* the mutation failed: its catch block, or an early return
Fail(r, response) == [Answer(r, response) EXCEPT !.pc = "respond", !.handled = response]

\* clearTransactionCache(userId) alone
ClearTransactionOnly(userId) == <<TransactionPattern(userId)>>

\* clearAnalyticsCache(userId) alone
ClearAnalyticsOnly(userId) == <<AnalyticsPattern(userId)>>

\* the pattern of the category controller: 'cache:*/categories*'
CategoriesPattern == <<"cache", ":", "*", "/categories", "*">>

\* clearTransactionCache(userId), then clearAnalyticsCache(userId)
ClearTransactionAndAnalytics(userId) == <<TransactionPattern(userId), AnalyticsPattern(userId)>>

\* a clearCache that calls client.del whatever client.keys found
OnKeys_AlwaysDel(r, keys) == [r EXCEPT !.keys = keys, !.pc = "clearCache:del"]

\* clearCache: if (keys.length > 0) await client.del(keys)
OnKeys(r, keys) ==
    IF keys = {} THEN NextClear(r) ELSE [r EXCEPT !.keys = keys, !.pc = "clearCache:del"]

\* clearCache: const keys = await client.keys(pattern)
ClearCacheKeys(i) ==
    /\ reqs[i].pc = "clearCache:keys"
    /\ \E keysFails \in Faults :
        /\ Charge(keysFails)
        /\ LET r == reqs[i]
               keys == Keys(cache, Head(r.pending))
               r2 == IF keysFails \/ ~isOpen
                     THEN OnClearError(r)
                     ELSE OnKeys([r EXCEPT !.matched = Cardinality(keys)], keys)
           IN  IF r2.pc = "respond"
               THEN Finish(i, r2, FALSE)
               ELSE Goto(i, r2, FALSE) /\ UNCHANGED last
    /\ UNCHANGED <<users, categories, transactions, nextTxId, isOpen, cache, probe, proc>>

\* clearCache: await client.del(keys)
ClearCacheDel(i) ==
    /\ reqs[i].pc = "clearCache:del"
    /\ \E delFails \in Faults :
        /\ Charge(delFails)
        /\ LET r == reqs[i]
               done == ~delFails /\ isOpen
               r2 == IF done THEN NextClear([r EXCEPT !.dels = r.dels + 1])
                     ELSE OnClearError(r)
           IN  /\ cache' = IF done THEN Del(cache, r.keys) ELSE cache
               /\ IF r2.pc = "respond"
                  THEN Finish(i, r2, done)
                  ELSE Goto(i, r2, done) /\ UNCHANGED last
    /\ UNCHANGED <<users, categories, transactions, nextTxId, isOpen, probe, proc>>

-----------------------------------------------------------------------------
(* controllers/transactionController.js *)

\* the category of the body exists and has the body's type, or the 400
CheckCategory(r, db) ==
    IF r.body.category_id \notin CatIds \/ db.categories[r.body.category_id] = NoRow
    THEN Response(400, Body(FALSE, "Invalid category ID", {}))
    ELSE IF db.categories[r.body.category_id] # r.body.type
         THEN Response(400, Body(FALSE, "Category type does not match transaction type", {}))
         ELSE Response(0, NoBody)

\* createTransaction: SELECT id FROM users WHERE id = targetUserId
CreateTransaction_User(i) ==
    /\ reqs[i].pc = "createTransaction:user"
    /\ \E dbError \in Faults :
        /\ Charge(dbError)
        /\ LET r == reqs[i]
           IN  IF dbError THEN Finish(i, Fail(r, InternalServerError), FALSE)
               ELSE IF r.target \notin UserIds \/ users[r.target] = NoRow
                    THEN Finish(i, Fail(r, Response(400, Body(FALSE, "Target user not found", {}))),
                                FALSE)
                    ELSE /\ Goto(i, [r EXCEPT !.pc = "createTransaction:category"], FALSE)
                         /\ UNCHANGED last
    /\ UNCHANGED <<users, categories, transactions, nextTxId, isOpen, cache, probe, proc>>

\* createTransaction: SELECT id, type FROM categories WHERE id = category_id
CreateTransaction_Category(i) ==
    /\ reqs[i].pc = "createTransaction:category"
    /\ \E dbError \in Faults :
        /\ Charge(dbError)
        /\ LET r == reqs[i]
           IN  IF dbError THEN Finish(i, Fail(r, InternalServerError), FALSE)
               ELSE IF CheckCategory(r, Database).status # 0
                    THEN Finish(i, Fail(r, CheckCategory(r, Database)), FALSE)
                    ELSE /\ Goto(i, [r EXCEPT !.pc = "createTransaction:insert"], FALSE)
                         /\ UNCHANGED last
    /\ UNCHANGED <<users, categories, transactions, nextTxId, isOpen, cache, probe, proc>>

\* a catch block that clears the cache before it answers
CreateTransaction_ClearsAnyway(r) ==
    LET patterns == ClearTransactionAndAnalytics(r.target)
    IN  [Answer(r, InternalServerError) EXCEPT
            !.handled = InternalServerError,
            !.patterns = {patterns[n] : n \in DOMAIN patterns},
            !.pending = patterns,
            !.pc = "clearCache:keys"]

\* what createTransaction does once its INSERT has thrown
CreateTransaction_OnInsertError(r) == Fail(r, InternalServerError)

\* createTransaction: INSERT INTO transactions, the cache clearing, the 201
CreateTransaction_Insert(i) ==
    /\ reqs[i].pc = "createTransaction:insert"
    /\ nextTxId <= MaxTx
    /\ \E dbError \in Faults :
        /\ Charge(dbError)
        /\ LET r == reqs[i]
               \* the foreign keys of the row: users(id), categories(id)
               violates == \/ users[r.target] = NoRow
                           \/ categories[r.body.category_id] = NoRow
               row == [user_id |-> r.target, category_id |-> r.body.category_id,
                       type |-> r.body.type, amount |-> r.body.amount]
               inserted == [transactions EXCEPT ![nextTxId] = row]
               new == [Database EXCEPT !.transactions = inserted]
               r2 == IF dbError \/ violates
                     THEN CreateTransaction_OnInsertError(r)
                     ELSE AfterCommit(r,
                             Response(201, Body(TRUE, "Transaction created successfully",
                                                {[id |-> nextTxId, user_id |-> r.target,
                                                  amount |-> row.amount, type |-> row.type,
                                                  category_id |-> row.category_id]})),
                             ClearTransactionAndAnalytics(r.target))
           IN  /\ IF dbError \/ violates
                  THEN UNCHANGED <<transactions, nextTxId, cache>>
                  ELSE /\ transactions' = inserted
                       /\ nextTxId' = nextTxId + 1
                       /\ cache' = MarkStale(cache, r.n, Database, new)
               /\ IF r2.pc = "respond"
                  THEN Finish(i, r2, FALSE)
                  ELSE Goto(i, r2, FALSE) /\ UNCHANGED last
    /\ UNCHANGED <<users, categories, isOpen, probe, proc>>

\* a check that leaves out AND user_id = $2
CheckTransaction_AnyOwner(r, db) ==
    IF r.id \in TxIds /\ db.transactions[r.id] # NoTx
    THEN db.transactions[r.id].user_id
    ELSE 0

\* updateTransaction, deleteTransaction: SELECT user_id FROM transactions
\* WHERE id = $1 [AND user_id = $2]: the row's owner, or 0 when no row matches
CheckTransaction(r, db) ==
    IF /\ r.id \in TxIds
       /\ db.transactions[r.id] # NoTx
       /\ (r.user.role # "admin" => db.transactions[r.id].user_id = r.user.id)
    THEN db.transactions[r.id].user_id
    ELSE 0

NotFoundOrDenied == Response(404, Body(FALSE, "Transaction not found or access denied", {}))

UpdateTransaction_Check(i) ==
    /\ reqs[i].pc = "updateTransaction:check"
    /\ \E dbError \in Faults :
        /\ Charge(dbError)
        /\ LET r == reqs[i]
           IN  IF dbError THEN Finish(i, Fail(r, InternalServerError), FALSE)
               ELSE IF CheckTransaction(r, Database) = 0
                    THEN Finish(i, Fail(r, NotFoundOrDenied), FALSE)
                    ELSE /\ Goto(i, [r EXCEPT !.pc = "updateTransaction:category"], FALSE)
                         /\ UNCHANGED last
    /\ UNCHANGED <<users, categories, transactions, nextTxId, isOpen, cache, probe, proc>>

UpdateTransaction_Category(i) ==
    /\ reqs[i].pc = "updateTransaction:category"
    /\ \E dbError \in Faults :
        /\ Charge(dbError)
        /\ LET r == reqs[i]
           IN  IF dbError THEN Finish(i, Fail(r, InternalServerError), FALSE)
               ELSE IF CheckCategory(r, Database).status # 0
                    THEN Finish(i, Fail(r, CheckCategory(r, Database)), FALSE)
                    ELSE /\ Goto(i, [r EXCEPT !.pc = "updateTransaction:update"], FALSE)
                         /\ UNCHANGED last
    /\ UNCHANGED <<users, categories, transactions, nextTxId, isOpen, cache, probe, proc>>

\* updateTransaction: UPDATE transactions ... RETURNING, the cache clearing,
\* the 200.  With no row left, result.rows[0].user_id throws: the catch block.
UpdateTransaction_Update(i) ==
    /\ reqs[i].pc = "updateTransaction:update"
    /\ \E dbError \in Faults :
        /\ Charge(dbError)
        /\ LET r == reqs[i]
               old == transactions[r.id]
               fails == \/ dbError
                        \/ categories[r.body.category_id] = NoRow
                        \/ old = NoTx
               row == [old EXCEPT !.category_id = r.body.category_id,
                                  !.type = r.body.type, !.amount = r.body.amount]
               updated == [transactions EXCEPT ![r.id] = row]
               new == [Database EXCEPT !.transactions = updated]
               r2 == IF fails
                     THEN Fail(r, InternalServerError)
                     ELSE AfterCommit([r EXCEPT !.target = old.user_id],
                             Response(200, Body(TRUE, "Transaction updated successfully",
                                                {[id |-> r.id, user_id |-> row.user_id,
                                                  amount |-> row.amount, type |-> row.type,
                                                  category_id |-> row.category_id]})),
                             ClearTransactionAndAnalytics(old.user_id))
           IN  /\ IF fails
                  THEN UNCHANGED <<transactions, cache>>
                  ELSE /\ transactions' = updated
                       /\ cache' = MarkStale(cache, r.n, Database, new)
               /\ IF r2.pc = "respond"
                  THEN Finish(i, r2, FALSE)
                  ELSE Goto(i, r2, FALSE) /\ UNCHANGED last
    /\ UNCHANGED <<users, categories, nextTxId, isOpen, probe, proc>>

DeleteTransaction_Check(i) ==
    /\ reqs[i].pc = "deleteTransaction:check"
    /\ \E dbError \in Faults :
        /\ Charge(dbError)
        /\ LET r == reqs[i]
           IN  IF dbError THEN Finish(i, Fail(r, InternalServerError), FALSE)
               ELSE IF CheckTransaction(r, Database) = 0
                    THEN Finish(i, Fail(r, NotFoundOrDenied), FALSE)
                    ELSE /\ Goto(i, [r EXCEPT !.pc = "deleteTransaction:delete",
                                              !.target = CheckTransaction(r, Database)], FALSE)
                         /\ UNCHANGED last
    /\ UNCHANGED <<users, categories, transactions, nextTxId, isOpen, cache, probe, proc>>

\* deleteTransaction: DELETE FROM transactions WHERE id = $1, the cache
\* clearing, the 200
DeleteTransaction_Delete(i) ==
    /\ reqs[i].pc = "deleteTransaction:delete"
    /\ \E dbError \in Faults :
        /\ Charge(dbError)
        /\ LET r == reqs[i]
               deleted == [transactions EXCEPT ![r.id] = NoTx]
               new == [Database EXCEPT !.transactions = deleted]
               r2 == IF dbError
                     THEN Fail(r, InternalServerError)
                     ELSE AfterCommit(r,
                             Response(200, Body(TRUE, "Transaction deleted successfully", {})),
                             ClearTransactionAndAnalytics(r.target))
           IN  /\ IF dbError
                  THEN UNCHANGED <<transactions, cache>>
                  ELSE /\ transactions' = deleted
                       /\ cache' = MarkStale(cache, r.n, Database, new)
               /\ IF r2.pc = "respond"
                  THEN Finish(i, r2, FALSE)
                  ELSE Goto(i, r2, FALSE) /\ UNCHANGED last
    /\ UNCHANGED <<users, categories, nextTxId, isOpen, probe, proc>>

\* updateCategory: SELECT id FROM categories WHERE id = $1
UpdateCategory_Check(i) ==
    /\ reqs[i].pc = "updateCategory:check"
    /\ \E dbError \in Faults :
        /\ Charge(dbError)
        /\ LET r == reqs[i]
           IN  IF dbError THEN Finish(i, Fail(r, InternalServerError), FALSE)
               ELSE IF r.id \notin CatIds \/ categories[r.id] = NoRow
                    THEN Finish(i, Fail(r, Response(404, Body(FALSE, "Category not found", {}))),
                                FALSE)
                    ELSE /\ Goto(i, [r EXCEPT !.pc = "updateCategory:duplicate"], FALSE)
                         /\ UNCHANGED last
    /\ UNCHANGED <<users, categories, transactions, nextTxId, isOpen, cache, probe, proc>>

\* updateCategory: SELECT id FROM categories WHERE name = $1 AND id != $2.
\* The names of the categories are not part of the state: whether another
\* category carries the name of the body is an input of the step.
UpdateCategory_Duplicate(i) ==
    /\ reqs[i].pc = "updateCategory:duplicate"
    /\ \E dbError \in Faults, duplicate \in BOOLEAN :
        /\ Charge(dbError)
        /\ dbError => ~duplicate
        /\ LET r == reqs[i]
           IN  IF dbError THEN Finish(i, Fail(r, InternalServerError), FALSE)
               ELSE IF duplicate
                    THEN Finish(i, Fail(r, Response(409,
                                  Body(FALSE, "Another category with this name already exists", {}))),
                                FALSE)
                    ELSE /\ Goto(i, [r EXCEPT !.pc = "updateCategory:update"], FALSE)
                         /\ UNCHANGED last
    /\ UNCHANGED <<users, categories, transactions, nextTxId, isOpen, cache, probe, proc>>

\* updateCategory: UPDATE categories SET name = $1, type = $2, ... WHERE
\* id = $5, the cache clearing, the 200
UpdateCategory_Update(i) ==
    /\ reqs[i].pc = "updateCategory:update"
    /\ \E dbError \in Faults :
        /\ Charge(dbError)
        /\ LET r == reqs[i]
               updated == IF categories[r.id] = NoRow THEN categories
                          ELSE [categories EXCEPT ![r.id] = r.body.type]
               new == [Database EXCEPT !.categories = updated]
               r2 == IF dbError
                     THEN Fail(r, InternalServerError)
                     ELSE AfterCommit(r,
                             Response(200, Body(TRUE, "Category updated successfully",
                                                {[id |-> r.id, type |-> updated[r.id]]})),
                             <<CategoriesPattern>>)
           IN  /\ IF dbError
                  THEN UNCHANGED <<categories, cache>>
                  ELSE /\ categories' = updated
                       /\ cache' = MarkStale(cache, r.n, Database, new)
               /\ IF r2.pc = "respond"
                  THEN Finish(i, r2, FALSE)
                  ELSE Goto(i, r2, FALSE) /\ UNCHANGED last
    /\ UNCHANGED <<users, transactions, nextTxId, isOpen, probe, proc>>

\* a usage check that never finds a transaction
CategoryInUse_Never(id, db) == FALSE

\* deleteCategory: SELECT COUNT(*) FROM transactions WHERE category_id = $1
\* is above zero
CategoryInUse(id, db) ==
    \E t \in TxIds : db.transactions[t] # NoTx /\ db.transactions[t].category_id = id

\* deleteCategory: SELECT id FROM categories WHERE id = $1
DeleteCategory_Check(i) ==
    /\ reqs[i].pc = "deleteCategory:check"
    /\ \E dbError \in Faults :
        /\ Charge(dbError)
        /\ LET r == reqs[i]
           IN  IF dbError THEN Finish(i, Fail(r, InternalServerError), FALSE)
               ELSE IF r.id \notin CatIds \/ categories[r.id] = NoRow
                    THEN Finish(i, Fail(r, Response(404, Body(FALSE, "Category not found", {}))),
                                FALSE)
                    ELSE /\ Goto(i, [r EXCEPT !.pc = "deleteCategory:usage"], FALSE)
                         /\ UNCHANGED last
    /\ UNCHANGED <<users, categories, transactions, nextTxId, isOpen, cache, probe, proc>>

\* deleteCategory: the count of the transactions of the category, and the 409
DeleteCategory_Usage(i) ==
    /\ reqs[i].pc = "deleteCategory:usage"
    /\ \E dbError \in Faults :
        /\ Charge(dbError)
        /\ LET r == reqs[i]
           IN  IF dbError THEN Finish(i, Fail(r, InternalServerError), FALSE)
               ELSE IF CategoryInUse(r.id, Database)
                    THEN Finish(i, Fail(r, Response(409,
                                  Body(FALSE, "Cannot delete category that is being used in transactions",
                                       {}))), FALSE)
                    ELSE /\ Goto(i, [r EXCEPT !.pc = "deleteCategory:delete"], FALSE)
                         /\ UNCHANGED last
    /\ UNCHANGED <<users, categories, transactions, nextTxId, isOpen, cache, probe, proc>>

\* deleteCategory: DELETE FROM categories WHERE id = $1, the cache clearing,
\* the 200.  transactions.category_id REFERENCES categories(id): the DELETE
\* of a category that a transaction refers to throws.
DeleteCategory_Delete(i) ==
    /\ reqs[i].pc = "deleteCategory:delete"
    /\ \E dbError \in Faults :
        /\ Charge(dbError)
        /\ LET r == reqs[i]
               violates == \E t \in TxIds : /\ transactions[t] # NoTx
                                            /\ transactions[t].category_id = r.id
               deleted == [categories EXCEPT ![r.id] = NoRow]
               new == [Database EXCEPT !.categories = deleted]
               r2 == IF dbError \/ violates
                     THEN Fail(r, InternalServerError)
                     ELSE AfterCommit(r,
                             Response(200, Body(TRUE, "Category deleted successfully", {})),
                             <<CategoriesPattern>>)
           IN  /\ IF dbError \/ violates
                  THEN UNCHANGED <<categories, cache>>
                  ELSE /\ categories' = deleted
                       /\ cache' = MarkStale(cache, r.n, Database, new)
               /\ IF r2.pc = "respond"
                  THEN Finish(i, r2, FALSE)
                  ELSE Goto(i, r2, FALSE) /\ UNCHANGED last
    /\ UNCHANGED <<users, transactions, nextTxId, isOpen, probe, proc>>

-----------------------------------------------------------------------------
(* controllers/adminController.js *)

\* updateUserRole: SELECT id, username, role FROM users WHERE id = $1, and
\* the refusal to change one's own role
UpdateUserRole_Check(i) ==
    /\ reqs[i].pc = "updateUserRole:check"
    /\ \E dbError \in Faults :
        /\ Charge(dbError)
        /\ LET r == reqs[i]
           IN  IF dbError THEN Finish(i, Fail(r, InternalServerError), FALSE)
               ELSE IF r.id \notin UserIds \/ users[r.id] = NoRow
                    THEN Finish(i, Fail(r, Response(404, Body(FALSE, "User not found", {}))), FALSE)
                    ELSE IF r.id = r.user.id
                         THEN Finish(i, Fail(r, Response(400,
                                      Body(FALSE, "You cannot change your own role", {}))), FALSE)
                         ELSE /\ Goto(i, [r EXCEPT !.pc = "updateUserRole:update"], FALSE)
                              /\ UNCHANGED last
    /\ UNCHANGED <<users, categories, transactions, nextTxId, isOpen, cache, probe, proc>>

\* the clearCache calls of updateUserRole after its UPDATE: it makes none
UpdateUserRole_Clears(r) == <<>>

\* updateUserRole: UPDATE users SET role = $1 WHERE id = $2, the 200
UpdateUserRole_Update(i) ==
    /\ reqs[i].pc = "updateUserRole:update"
    /\ \E dbError \in Faults :
        /\ Charge(dbError)
        /\ LET r == reqs[i]
               updated == IF users[r.id] = NoRow THEN users
                          ELSE [users EXCEPT ![r.id] = r.body.role]
               new == [Database EXCEPT !.users = updated]
               r2 == IF dbError
                     THEN Fail(r, InternalServerError)
                     ELSE AfterCommit([r EXCEPT !.target = r.id],
                             Response(200, Body(TRUE, "User role updated successfully",
                                                {[id |-> r.id, role |-> updated[r.id]]})),
                             UpdateUserRole_Clears(r))
           IN  /\ IF dbError
                  THEN UNCHANGED <<users, cache>>
                  ELSE /\ users' = updated
                       /\ cache' = MarkStale(cache, r.n, Database, new)
               /\ IF r2.pc = "respond"
                  THEN Finish(i, r2, FALSE)
                  ELSE Goto(i, r2, FALSE) /\ UNCHANGED last
    /\ UNCHANGED <<categories, transactions, nextTxId, isOpen, probe, proc>>

\* deleteUser: SELECT id, username FROM users WHERE id = $1, and the refusal
\* to delete one's own account
DeleteUser_Check(i) ==
    /\ reqs[i].pc = "deleteUser:check"
    /\ \E dbError \in Faults :
        /\ Charge(dbError)
        /\ LET r == reqs[i]
           IN  IF dbError THEN Finish(i, Fail(r, InternalServerError), FALSE)
               ELSE IF r.id \notin UserIds \/ users[r.id] = NoRow
                    THEN Finish(i, Fail(r, Response(404, Body(FALSE, "User not found", {}))), FALSE)
                    ELSE IF r.id = r.user.id
                         THEN Finish(i, Fail(r, Response(400,
                                      Body(FALSE, "You cannot delete your own account", {}))), FALSE)
                         ELSE /\ Goto(i, [r EXCEPT !.pc = "deleteUser:delete"], FALSE)
                              /\ UNCHANGED last
    /\ UNCHANGED <<users, categories, transactions, nextTxId, isOpen, cache, probe, proc>>

\* deleteUser: DELETE FROM users WHERE id = $1, the 200.  The user's
\* transactions go with the row: transactions.user_id ... ON DELETE CASCADE.
DeleteUser_Delete(i) ==
    /\ reqs[i].pc = "deleteUser:delete"
    /\ \E dbError \in Faults :
        /\ Charge(dbError)
        /\ LET r == reqs[i]
               deleted == [users EXCEPT ![r.id] = NoRow]
               cascaded == [t \in TxIds |->
                              IF transactions[t] # NoTx /\ transactions[t].user_id = r.id
                              THEN NoTx ELSE transactions[t]]
               new == [Database EXCEPT !.users = deleted, !.transactions = cascaded]
               r2 == IF dbError
                     THEN Fail(r, InternalServerError)
                     ELSE AfterCommit([r EXCEPT !.target = r.id],
                             Response(200, Body(TRUE, "User deleted successfully", {})),
                             <<>>)
           IN  /\ IF dbError
                  THEN UNCHANGED <<users, transactions, cache>>
                  ELSE /\ users' = deleted
                       /\ transactions' = cascaded
                       /\ cache' = MarkStale(cache, r.n, Database, new)
               /\ IF r2.pc = "respond"
                  THEN Finish(i, r2, FALSE)
                  ELSE Goto(i, r2, FALSE) /\ UNCHANGED last
    /\ UNCHANGED <<categories, nextTxId, isOpen, probe, proc>>

-----------------------------------------------------------------------------
(* Clients and the environment *)

\* the mutating operations that clear the cache after their commit
InvalidatingOps == {"createTransaction", "updateTransaction", "deleteTransaction"}

\* A request arrives and authenticateToken reads its user.  History taken
\* here: the identical request answered just before it; and, when the request
\* answered just before it is a committed mutation whose clearCache calls all
\* ran to their end on an open store, whether the key of this request still
\* holds a payload that mutation has outdated; and whether the request answered
\* just before it is a committed create, update or delete by the same user of
\* a transaction of that user, with its clearCache calls run to their end or not.
Issue(r) ==
    \E dbError \in BOOLEAN :
        LET cost == IF dbError THEN 2 ELSE 1
            key == CacheKey(r.url, [id |-> r.uid, role |-> "none"])
            again == /\ IsRetrieval(r)
                     /\ last.pc = "done" /\ last.op = r.op /\ last.url = r.url
                     /\ last.uid = r.uid
                     /\ last.stored /\ isOpen /\ key \in DOMAIN cache
            outdated == /\ IsRetrieval(r)
                        /\ last.pc = "done" /\ last.committed /\ last.clean
                        /\ InFlight = {}
                        /\ isOpen /\ key \in DOMAIN cache
                        /\ cache[key].staleBy = last.n
            own == /\ IsRetrieval(r)
                   /\ last.pc = "done" /\ last.op \in InvalidatingOps /\ last.committed
                   /\ last.uid = r.uid /\ last.target = r.uid
                   /\ InFlight = {}
            r2 == AuthenticateToken(
                    [r EXCEPT !.n = events + 1,
                              !.hasPrior = again,
                              !.prior = IF again THEN last.payload ELSE NoBody,
                              !.pre = IF outdated THEN last.op ELSE "none",
                              !.after = IF ~own THEN "none"
                                        ELSE IF last.clean THEN "cleared" ELSE "uncleared"],
                    dbError)
        IN  /\ events + cost <= MaxEvents
            /\ Cardinality(InFlight) < MaxInFlight
            /\ events' = events + cost
            /\ IF r2.pc = "respond"
               THEN /\ last' = [r2 EXCEPT !.pc = "done"]
                    /\ UNCHANGED reqs
               ELSE /\ last' = NoRequest
                    /\ reqs' = [j \in InFlight \cup {events + 1} |->
                                  IF j \in InFlight THEN reqs[j] ELSE r2]
            /\ UNCHANGED <<users, categories, transactions, nextTxId, isOpen, cache, probe, proc>>

\* GET of a cached route
IssueRetrieval ==
    \E route \in GetRoutes, uid \in UserIds :
        Issue(NewRequest(route.op, "GET", route.url, route.ttl, route.admin, FALSE,
                         uid, route.query_user_id, route.id, NoInput))

\* bodies of POST and PUT /api/transactions: one that fails validation, one
\* per type for category 1, one naming a category that does not exist
TransactionInputs ==
    {Input(FALSE, "income", 1, 0, 1, "none")} \cup
    {Input(TRUE, t, 1, 0, 1, "none") : t \in Types} \cup
    {Input(TRUE, "income", MissingCat, 0, 1, "none")}

\* POST /api/transactions
IssueCreateTransaction ==
    \E uid \in UserIds, b \in TransactionInputs, user_id \in {0, 2, MissingUser} :
        /\ user_id # 0 => b = Input(TRUE, "income", 1, 0, 1, "none")
        /\ nextTxId + Cardinality({j \in InFlight : reqs[j].op = "createTransaction"}) <= MaxTx
        /\ Issue(NewRequest("createTransaction", "POST", <<"/api", "/transactions">>, 0,
                            FALSE, TRUE, uid, 0, 0, [b EXCEPT !.user_id = user_id]))

\* PUT /api/transactions/:id
IssueUpdateTransaction ==
    \E uid \in UserIds, id \in TxIds, b \in TransactionInputs :
        Issue(NewRequest("updateTransaction", "PUT", <<"/api", "/transactions", "/">>, 0,
                         FALSE, TRUE, uid, 0, id, [b EXCEPT !.amount = 2]))

\* DELETE /api/transactions/:id
IssueDeleteTransaction ==
    \E uid \in UserIds, id \in TxIds :
        Issue(NewRequest("deleteTransaction", "DELETE", <<"/api", "/transactions", "/">>, 0,
                         FALSE, TRUE, uid, 0, id, NoInput))

\* PUT /api/admin/users/:id/role
IssueUpdateUserRole ==
    \E uid \in UserIds, id \in UserIds \cup {MissingUser}, role \in {"admin", "read-only", "owner"} :
        /\ role # "admin" => id = 2
        /\ Issue(NewRequest("updateUserRole", "PUT", <<"/api", "/admin", "/users", "/role">>, 0,
                         TRUE, FALSE, uid, 0, id, [NoInput EXCEPT !.role = role]))

\* an entry's TTL elapses: Redis drops it
Expire ==
    \E k \in DOMAIN cache :
        /\ events < MaxEvents
        /\ events' = events + 1
        /\ cache' = Del(cache, {k})
        /\ reqs' = Others(0, TRUE)
        /\ UNCHANGED <<users, categories, transactions, nextTxId, isOpen, last, probe, proc>>

\* the seconds that pass in one step of the clock: the shortest TTL
TickSeconds == TtlTransactions

\* a clock that forgets to drop the entries whose time is over
Tick_KeepsExpired ==
    /\ \E k \in DOMAIN cache : cache[k].age < cache[k].ttl
    /\ cache' = [k \in DOMAIN cache |->
                   IF cache[k].age < cache[k].ttl
                   THEN [cache[k] EXCEPT !.age = @ + TickSeconds] ELSE cache[k]]
    /\ reqs' = Others(0, TRUE)
    /\ UNCHANGED <<users, categories, transactions, nextTxId, isOpen, events, last, probe, proc>>

\* time passes: Redis drops the entries that have lived their TTL
Tick ==
    /\ DOMAIN cache # {}
    /\ cache' = [k \in {x \in DOMAIN cache : cache[x].age + TickSeconds < cache[x].ttl} |->
                   [cache[k] EXCEPT !.age = @ + TickSeconds]]
    /\ reqs' = Others(0, TRUE)
    /\ UNCHANGED <<users, categories, transactions, nextTxId, isOpen, events, last, probe, proc>>

\* the connection to Redis ends
Disconnect ==
    /\ isOpen
    /\ events < MaxEvents
    /\ events' = events + 1
    /\ isOpen' = FALSE
    /\ reqs' = Others(0, TRUE)
    /\ UNCHANGED <<users, categories, transactions, nextTxId, cache, last, probe, proc>>

\* the client reconnects
Reconnect ==
    /\ ~isOpen
    /\ events < MaxEvents
    /\ events' = events + 1
    /\ isOpen' = TRUE
    /\ reqs' = Others(0, TRUE)
    /\ UNCHANGED <<users, categories, transactions, nextTxId, cache, last, probe, proc>>

-----------------------------------------------------------------------------
(* The service *)

NoProbe == [url |-> <<>>, user |-> NoUser, key |-> <<>>]

\* the process: pc is where it is ("startServer", "app.listen", "listening",
\* "exited"), redis the outcome of connectRedis, signal the signal received,
\* closed whether server.close ran, code the exit code (-1 while it runs)
Process(pc, redis) ==
    [pc |-> pc, redis |-> redis, signal |-> "none", closed |-> FALSE, code |-> -1]

\* startServer has run: the server listens
Listening == Process("listening", "none")

\* the database after migrate.js (user 1 the admin, user 2 a plain user)
\* with a category of each type, an empty store, no request yet
Init ==
    /\ users = [u \in UserIds |-> IF u = 1 THEN "admin" ELSE IF u = 2 THEN "user" ELSE "read-only"]
    /\ categories = [c \in CatIds |-> IF c % 2 = 1 THEN "income" ELSE "expense"]
    /\ transactions = [t \in TxIds |-> NoTx]
    /\ nextTxId = 1
    /\ isOpen \in BOOLEAN
    /\ cache = <<>>
    /\ reqs = <<>>
    /\ events = 0
    /\ last = NoRequest
    /\ probe = NoProbe
    /\ proc = Listening

Next ==
    \/ IssueRetrieval
    \/ IssueCreateTransaction
    \/ IssueUpdateTransaction
    \/ IssueDeleteTransaction
    \/ IssueUpdateUserRole
    \/ \E i \in InFlight : CacheMiddleware(i)
    \/ \E i \in InFlight : Handler(i)
    \/ \E i \in InFlight : ResJson(i)
    \/ \E i \in InFlight : CreateTransaction_User(i)
    \/ \E i \in InFlight : CreateTransaction_Category(i)
    \/ \E i \in InFlight : CreateTransaction_Insert(i)
    \/ \E i \in InFlight : UpdateTransaction_Check(i)
    \/ \E i \in InFlight : UpdateTransaction_Category(i)
    \/ \E i \in InFlight : UpdateTransaction_Update(i)
    \/ \E i \in InFlight : DeleteTransaction_Check(i)
    \/ \E i \in InFlight : DeleteTransaction_Delete(i)
    \/ \E i \in InFlight : UpdateUserRole_Check(i)
    \/ \E i \in InFlight : UpdateUserRole_Update(i)
    \/ \E i \in InFlight : ClearCacheKeys(i)
    \/ \E i \in InFlight : ClearCacheDel(i)
    \/ Expire
    \/ Disconnect
    \/ Reconnect

Spec == Init /\ [][Next]_vars

-----------------------------------------------------------------------------
(* The key composition alone *)

\* pieces a URL can hold after "/api": the delimiter of the key and digits
\* among them
ProbeAlphabet == {":", "1", "2", "?"}
ProbeUrls ==
    {<<"/api">> \o t : t \in UNION {[1..n -> ProbeAlphabet] : n \in 0..MaxUrlLen}}
\* req.user: absent, or a user with an id of one or two digits
Principals == {NoUser} \cup {[id |-> n, role |-> "user"] : n \in 1..MaxKeyId}

\* cacheMiddleware composes the key of a request
ComposeKey ==
    /\ \E url \in ProbeUrls, user \in Principals :
        probe' = [url |-> url, user |-> user, key |-> CacheKey(url, user)]
    /\ UNCHANGED <<users, categories, transactions, nextTxId, isOpen, cache, reqs, events, last, proc>>

SpecKey == Init /\ [][ComposeKey]_vars

-----------------------------------------------------------------------------
(* cacheMiddleware in front of a handler, for any method and any store *)

\* what the store can hold under a key when the server starts: nothing, a
\* payload, or a value that is not JSON
SeedValues == {Corrupt, JSONstringify(Body(TRUE, "", {}))}
SeedRequest ==
    [NewRequest("getCategories", "GET", <<"/api", "/categories">>, TtlCategories,
                FALSE, FALSE, 2, 0, 0, NoInput)
        EXCEPT !.user = [id |-> 2, role |-> "user"], !.status = 200]
Seeds ==
    {<<>>} \cup
    {SetEx(<<>>, CacheKey(SeedRequest.url, SeedRequest.user),
           Entry(v, TtlCategories, SeedRequest)) : v \in SeedValues}

InitMw ==
    /\ users = [u \in UserIds |-> IF u = 1 THEN "admin" ELSE IF u = 2 THEN "user" ELSE "read-only"]
    /\ categories = [c \in CatIds |-> IF c % 2 = 1 THEN "income" ELSE "expense"]
    /\ transactions = [t \in TxIds |-> NoTx]
    /\ nextTxId = 1
    /\ isOpen \in BOOLEAN
    /\ cache \in Seeds
    /\ reqs = <<>>
    /\ events = 0
    /\ last = NoRequest
    /\ probe = NoProbe
    /\ proc = Listening

\* the handlers behind the middleware: one that finds its rows, one that
\* answers 404
StubRoutes == {route \in GetRoutes : route.op \in {"getCategories", "getTransaction"}}

\* a request of any method to a route whose chain holds cacheMiddleware
IssueAnyMethod ==
    \E route \in StubRoutes, uid \in {SeedRequest.uid}, method \in {"GET", "POST"} :
        Issue(NewRequest(route.op, method, route.url, route.ttl, route.admin, FALSE,
                         uid, route.query_user_id, route.id, NoInput))

NextMw ==
    \/ IssueAnyMethod
    \/ \E i \in InFlight : CacheMiddleware(i)
    \/ \E i \in InFlight : Handler(i)
    \/ \E i \in InFlight : ResJson(i)
    \/ Disconnect
    \/ Reconnect

SpecMw == InitMw /\ [][NextMw]_vars

-----------------------------------------------------------------------------
(* The cache over time: the admin's retrievals, a create and a delete of a *)
(* transaction, and the clock                                             *)

IssueTimedRetrieval ==
    \E route \in GetRoutes :
        Issue(NewRequest(route.op, "GET", route.url, route.ttl, route.admin, FALSE,
                         1, route.query_user_id, route.id, NoInput))

IssueTimedCreate ==
    /\ nextTxId + Cardinality({j \in InFlight : reqs[j].op = "createTransaction"}) <= MaxTx
    /\ Issue(NewRequest("createTransaction", "POST", <<"/api", "/transactions">>, 0,
                        FALSE, TRUE, 1, 0, 0, Input(TRUE, "income", 1, 0, 1, "none")))

IssueTimedDelete ==
    \E id \in TxIds :
        Issue(NewRequest("deleteTransaction", "DELETE", <<"/api", "/transactions", "/">>, 0,
                         FALSE, TRUE, 1, 0, id, NoInput))

NextTtl ==
    \/ IssueTimedRetrieval
    \/ IssueTimedCreate
    \/ IssueTimedDelete
    \/ \E i \in InFlight : CacheMiddleware(i)
    \/ \E i \in InFlight : Handler(i)
    \/ \E i \in InFlight : ResJson(i)
    \/ \E i \in InFlight : CreateTransaction_Category(i)
    \/ \E i \in InFlight : CreateTransaction_Insert(i)
    \/ \E i \in InFlight : DeleteTransaction_Check(i)
    \/ \E i \in InFlight : DeleteTransaction_Delete(i)
    \/ \E i \in InFlight : ClearCacheKeys(i)
    \/ \E i \in InFlight : ClearCacheDel(i)
    \/ Tick

SpecTtl == Init /\ [][NextTtl]_vars

-----------------------------------------------------------------------------
(* clearCache alone, on any store *)

\* the arguments clearCache is called with: the patterns of clearUserCache,
\* clearAnalyticsCache and clearTransactionCache for a user and for '*', and
\* the pattern of the category controller
ClearPatterns ==
    UNION {{UserPattern(u), AnalyticsPattern(u), TransactionPattern(u)} : u \in {0} \cup UserIds}
        \cup {CategoriesPattern}

\* the entries a store can hold when clearCache is called
SeedEntries ==
    LET seed(route, uid) ==
            [NewRequest(route.op, "GET", route.url, route.ttl, route.admin, FALSE,
                        uid, route.query_user_id, route.id, NoInput)
                EXCEPT !.user = [id |-> uid, role |-> "user"], !.status = 200]
    IN  {seed(route, 2) : route \in {x \in GetRoutes : x.op \in {"getTransactions", "getDashboardSummary"}
                                                        /\ x.query_user_id = 0}}
          \cup {seed(route, 1) : route \in {x \in GetRoutes : x.op = "getCategories"}}

StoreOf(rs) ==
    [k \in {CacheKey(r.url, r.user) : r \in rs} |->
        LET r == CHOOSE x \in rs : CacheKey(x.url, x.user) = k
        IN  Entry(JSONstringify(Body(TRUE, "", {})), r.ttl, r)]

InitClear ==
    /\ users = [u \in UserIds |-> IF u = 1 THEN "admin" ELSE IF u = 2 THEN "user" ELSE "read-only"]
    /\ categories = [c \in CatIds |-> IF c % 2 = 1 THEN "income" ELSE "expense"]
    /\ transactions = [t \in TxIds |-> NoTx]
    /\ nextTxId = 1
    /\ isOpen \in BOOLEAN
    /\ cache \in {StoreOf(rs) : rs \in SUBSET SeedEntries}
    /\ reqs = <<>>
    /\ events = 0
    /\ last = NoRequest
    /\ probe = NoProbe
    /\ proc = Listening

\* clearCache(pattern) is called: it returns at once when the client is closed
CallClearCache ==
    \E pattern \in ClearPatterns :
        LET r == [NewRequest("clearCache", "none", <<>>, 0, FALSE, FALSE, 0, 0, 0, NoInput)
                    EXCEPT !.n = events + 1, !.patterns = {pattern}, !.pending = <<pattern>>,
                           !.pc = "clearCache:keys"]
        IN  /\ events < MaxEvents
            /\ Cardinality(InFlight) < MaxInFlight
            /\ events' = events + 1
            /\ IF ~isOpen
               THEN /\ last' = [NextClear([r EXCEPT !.clean = FALSE]) EXCEPT !.pc = "done"]
                    /\ UNCHANGED reqs
               ELSE /\ last' = NoRequest
                    /\ reqs' = [j \in InFlight \cup {events + 1} |->
                                  IF j \in InFlight THEN reqs[j] ELSE r]
            /\ UNCHANGED <<users, categories, transactions, nextTxId, isOpen, cache, probe, proc>>

NextClearCache ==
    \/ CallClearCache
    \/ \E i \in InFlight : ClearCacheKeys(i)
    \/ \E i \in InFlight : ClearCacheDel(i)
    \/ Disconnect
    \/ Reconnect

SpecClear == InitClear /\ [][NextClearCache]_vars

-----------------------------------------------------------------------------
(* clearTransactionCache and clearAnalyticsCache for one user, on a store *)
(* that holds entries of that user and of another one                      *)

\* two principals, the id of one the last digit of the id of the other
ScopeUsers == {2, MaxKeyId}

\* the entries the store can hold: a transaction route, an analytics route
\* and another route, for each principal
ScopeEntries ==
    {[NewRequest(route.op, "GET", route.url, route.ttl, route.admin, FALSE,
                 uid, route.query_user_id, route.id, NoInput)
         EXCEPT !.user = [id |-> uid, role |-> "user"], !.status = 200] :
       route \in {x \in GetRoutes : /\ x.op \in {"getTransactions", "getDashboardSummary",
                                                 "getCategories"}
                                    /\ x.query_user_id = 0},
       uid \in ScopeUsers}

InitScope ==
    /\ users = [u \in UserIds |-> IF u = 1 THEN "admin" ELSE IF u = 2 THEN "user" ELSE "read-only"]
    /\ categories = [c \in CatIds |-> IF c % 2 = 1 THEN "income" ELSE "expense"]
    /\ transactions = [t \in TxIds |-> NoTx]
    /\ nextTxId = 1
    /\ isOpen \in BOOLEAN
    /\ cache \in {StoreOf(rs) : rs \in SUBSET ScopeEntries}
    /\ reqs = <<>>
    /\ events = 0
    /\ last = NoRequest
    /\ probe = NoProbe
    /\ proc = Listening

\* clearTransactionCache(userId) or clearAnalyticsCache(userId) is called
CallClearForUser ==
    \E userId \in ScopeUsers :
      \E pattern \in {TransactionPattern(userId), AnalyticsPattern(userId)} :
        LET r == [NewRequest("clearCache", "none", <<>>, 0, FALSE, FALSE, 0, 0, 0, NoInput)
                    EXCEPT !.n = events + 1, !.target = userId,
                           !.patterns = {pattern}, !.pending = <<pattern>>,
                           !.pc = "clearCache:keys"]
        IN  /\ events < MaxEvents
            /\ Cardinality(InFlight) < MaxInFlight
            /\ events' = events + 1
            /\ IF ~isOpen
               THEN /\ last' = [NextClear([r EXCEPT !.clean = FALSE]) EXCEPT !.pc = "done"]
                    /\ UNCHANGED reqs
               ELSE /\ last' = NoRequest
                    /\ reqs' = [j \in InFlight \cup {events + 1} |->
                                  IF j \in InFlight THEN reqs[j] ELSE r]
            /\ UNCHANGED <<users, categories, transactions, nextTxId, isOpen, cache, probe, proc>>

NextScope ==
    \/ CallClearForUser
    \/ \E i \in InFlight : ClearCacheKeys(i)
    \/ \E i \in InFlight : ClearCacheDel(i)
    \/ Disconnect
    \/ Reconnect

SpecScope == InitScope /\ [][NextScope]_vars

-----------------------------------------------------------------------------
(* Who may do what: the mutating routes and the admin listing, for every *)
(* user and role                                                           *)

\* POST /api/transactions with a body that names a user, or none
IssueCreateFor ==
    \E uid \in UserIds, user_id \in {0} \cup UserIds :
        /\ nextTxId + Cardinality({j \in InFlight : reqs[j].op = "createTransaction"}) <= MaxTx
        /\ Issue(NewRequest("createTransaction", "POST", <<"/api", "/transactions">>, 0,
                            FALSE, TRUE, uid, 0, 0, Input(TRUE, "income", 1, user_id, 1, "none")))

\* GET /api/admin/users, GET /api/transactions
IssueAccessRetrieval ==
    \E route \in {x \in GetRoutes : x.admin \/ x.op = "getTransactions"}, uid \in UserIds :
        Issue(NewRequest(route.op, "GET", route.url, route.ttl, route.admin, FALSE,
                         uid, route.query_user_id, route.id, NoInput))

NextAccess ==
    \/ IssueCreateFor
    \/ IssueUpdateTransaction
    \/ IssueDeleteTransaction
    \/ IssueUpdateUserRole
    \/ IssueAccessRetrieval
    \/ \E i \in InFlight : CacheMiddleware(i)
    \/ \E i \in InFlight : Handler(i)
    \/ \E i \in InFlight : ResJson(i)
    \/ \E i \in InFlight : CreateTransaction_User(i)
    \/ \E i \in InFlight : CreateTransaction_Category(i)
    \/ \E i \in InFlight : CreateTransaction_Insert(i)
    \/ \E i \in InFlight : UpdateTransaction_Check(i)
    \/ \E i \in InFlight : UpdateTransaction_Category(i)
    \/ \E i \in InFlight : UpdateTransaction_Update(i)
    \/ \E i \in InFlight : DeleteTransaction_Check(i)
    \/ \E i \in InFlight : DeleteTransaction_Delete(i)
    \/ \E i \in InFlight : UpdateUserRole_Check(i)
    \/ \E i \in InFlight : UpdateUserRole_Update(i)
    \/ \E i \in InFlight : ClearCacheKeys(i)
    \/ \E i \in InFlight : ClearCacheDel(i)

SpecAccess == Init /\ [][NextAccess]_vars

-----------------------------------------------------------------------------
(* Categories and the transactions that use them *)

\* bodies of POST and PUT /api/transactions that name category 1, category 2
\* or a category that does not exist
CategoryInputs ==
    {Input(TRUE, "income", 1, 0, 1, "none"),
     Input(TRUE, "expense", 2, 0, 1, "none"),
     Input(TRUE, "income", MissingCat, 0, 1, "none")}

IssueCategoryCreate ==
    \E uid \in UserIds, b \in CategoryInputs :
        /\ nextTxId + Cardinality({j \in InFlight : reqs[j].op = "createTransaction"}) <= MaxTx
        /\ Issue(NewRequest("createTransaction", "POST", <<"/api", "/transactions">>, 0,
                            FALSE, TRUE, uid, 0, 0, b))

IssueCategoryUpdate ==
    \E uid \in UserIds, id \in TxIds, b \in CategoryInputs :
        Issue(NewRequest("updateTransaction", "PUT", <<"/api", "/transactions", "/">>, 0,
                         FALSE, TRUE, uid, 0, id, [b EXCEPT !.amount = 2]))

\* DELETE /api/categories/:id
IssueDeleteCategory ==
    \E uid \in UserIds, id \in CatIds \cup {MissingCat} :
        Issue(NewRequest("deleteCategory", "DELETE", <<"/api", "/categories", "/">>, 0,
                         TRUE, FALSE, uid, 0, id, NoInput))

\* GET /api/categories
IssueGetCategories ==
    \E route \in {x \in GetRoutes : x.op = "getCategories"} :
        Issue(NewRequest(route.op, "GET", route.url, route.ttl, route.admin, FALSE,
                         1, route.query_user_id, route.id, NoInput))

NextCat ==
    \/ IssueCategoryCreate
    \/ IssueCategoryUpdate
    \/ IssueDeleteCategory
    \/ IssueGetCategories
    \/ \E i \in InFlight : CacheMiddleware(i)
    \/ \E i \in InFlight : Handler(i)
    \/ \E i \in InFlight : ResJson(i)
    \/ \E i \in InFlight : CreateTransaction_Category(i)
    \/ \E i \in InFlight : CreateTransaction_Insert(i)
    \/ \E i \in InFlight : UpdateTransaction_Check(i)
    \/ \E i \in InFlight : UpdateTransaction_Category(i)
    \/ \E i \in InFlight : UpdateTransaction_Update(i)
    \/ \E i \in InFlight : DeleteCategory_Check(i)
    \/ \E i \in InFlight : DeleteCategory_Usage(i)
    \/ \E i \in InFlight : DeleteCategory_Delete(i)
    \/ \E i \in InFlight : ClearCacheKeys(i)
    \/ \E i \in InFlight : ClearCacheDel(i)

SpecCat == Init /\ [][NextCat]_vars

-----------------------------------------------------------------------------
(* One client at a time: a user's own transactions and the user's cached *)
(* transaction and analytics routes, on a store that holds entries        *)

\* the routes whose URL contains '/transactions' or '/analytics'
OwnRoutes ==
    {route \in GetRoutes : /\ route.op \in {"getTransactions", "getTransaction",
                                            "getDashboardSummary"}
                           /\ route.query_user_id = 0}

IssueOwnRetrieval ==
    \E route \in OwnRoutes, uid \in UserIds :
        /\ InFlight = {}
        /\ Issue(NewRequest(route.op, "GET", route.url, route.ttl, route.admin, FALSE,
                            uid, route.query_user_id, route.id, NoInput))

IssueOwnCreate ==
    \E uid \in UserIds :
        /\ InFlight = {}
        /\ nextTxId <= MaxTx
        /\ Issue(NewRequest("createTransaction", "POST", <<"/api", "/transactions">>, 0,
                            FALSE, TRUE, uid, 0, 0, Input(TRUE, "income", 1, 0, 1, "none")))

IssueOwnUpdate ==
    \E uid \in UserIds, id \in TxIds :
        /\ InFlight = {}
        /\ Issue(NewRequest("updateTransaction", "PUT", <<"/api", "/transactions", "/">>, 0,
                            FALSE, TRUE, uid, 0, id, Input(TRUE, "income", 1, 0, 2, "none")))

IssueOwnDelete ==
    \E uid \in UserIds, id \in TxIds :
        /\ InFlight = {}
        /\ Issue(NewRequest("deleteTransaction", "DELETE", <<"/api", "/transactions", "/">>, 0,
                            FALSE, TRUE, uid, 0, id, NoInput))

NextOwn ==
    \/ IssueOwnRetrieval
    \/ IssueOwnCreate
    \/ IssueOwnUpdate
    \/ IssueOwnDelete
    \/ \E i \in InFlight : CacheMiddleware(i)
    \/ \E i \in InFlight : Handler(i)
    \/ \E i \in InFlight : ResJson(i)
    \/ \E i \in InFlight : CreateTransaction_Category(i)
    \/ \E i \in InFlight : CreateTransaction_Insert(i)
    \/ \E i \in InFlight : UpdateTransaction_Check(i)
    \/ \E i \in InFlight : UpdateTransaction_Category(i)
    \/ \E i \in InFlight : UpdateTransaction_Update(i)
    \/ \E i \in InFlight : DeleteTransaction_Check(i)
    \/ \E i \in InFlight : DeleteTransaction_Delete(i)
    \/ \E i \in InFlight : ClearCacheKeys(i)
    \/ \E i \in InFlight : ClearCacheDel(i)
    \/ Disconnect
    \/ Reconnect

SpecOwn == InitClear /\ [][NextOwn]_vars

-----------------------------------------------------------------------------
(* A second admin who reads another user's transaction and is demoted *)

\* user 2 has been made an admin and user 1 has created a transaction
InitDemote ==
    /\ users = [u \in UserIds |-> "admin"]
    /\ categories = [c \in CatIds |-> IF c % 2 = 1 THEN "income" ELSE "expense"]
    /\ transactions = [t \in TxIds |->
                         IF t = 1 THEN [user_id |-> 1, category_id |-> 1,
                                        type |-> "income", amount |-> 1]
                         ELSE NoTx]
    /\ nextTxId = 2
    /\ isOpen \in BOOLEAN
    /\ cache = <<>>
    /\ reqs = <<>>
    /\ events = 0
    /\ last = NoRequest
    /\ probe = NoProbe
    /\ proc = Listening

\* GET /api/transactions/1, GET /api/transactions
IssueViewTransactions ==
    \E route \in {x \in GetRoutes : /\ x.op \in {"getTransaction", "getTransactions"}
                                    /\ x.query_user_id = 0},
       uid \in UserIds :
        Issue(NewRequest(route.op, "GET", route.url, route.ttl, route.admin, FALSE,
                         uid, route.query_user_id, route.id, NoInput))

\* PUT /api/admin/users/:id/role with a role that is not admin
IssueDemote ==
    \E uid \in UserIds, id \in UserIds, role \in {"user", "read-only"} :
        Issue(NewRequest("updateUserRole", "PUT", <<"/api", "/admin", "/users", "/role">>, 0,
                         TRUE, FALSE, uid, 0, id, [NoInput EXCEPT !.role = role]))

NextDemote ==
    \/ IssueViewTransactions
    \/ IssueDemote
    \/ \E i \in InFlight : CacheMiddleware(i)
    \/ \E i \in InFlight : Handler(i)
    \/ \E i \in InFlight : ResJson(i)
    \/ \E i \in InFlight : UpdateUserRole_Check(i)
    \/ \E i \in InFlight : UpdateUserRole_Update(i)

SpecDemote == InitDemote /\ [][NextDemote]_vars

-----------------------------------------------------------------------------
(* Two admins who change roles and delete accounts, and what the users *)
(* they change can do next                                              *)

\* user 2 has been made an admin
InitAdmins ==
    /\ users = [u \in UserIds |-> "admin"]
    /\ categories = [c \in CatIds |-> IF c % 2 = 1 THEN "income" ELSE "expense"]
    /\ transactions = [t \in TxIds |-> NoTx]
    /\ nextTxId = 1
    /\ isOpen \in BOOLEAN
    /\ cache = <<>>
    /\ reqs = <<>>
    /\ events = 0
    /\ last = NoRequest
    /\ probe = NoProbe
    /\ proc = Listening

\* PUT /api/admin/users/:id/role
IssueSetRole ==
    \E uid \in UserIds, id \in UserIds, role \in Roles \ {"admin"} :
        Issue(NewRequest("updateUserRole", "PUT", <<"/api", "/admin", "/users", "/role">>, 0,
                         TRUE, FALSE, uid, 0, id, [NoInput EXCEPT !.role = role]))

\* DELETE /api/admin/users/:id
IssueDeleteUser ==
    \E uid \in UserIds, id \in UserIds :
        Issue(NewRequest("deleteUser", "DELETE", <<"/api", "/admin", "/users", "/">>, 0,
                         TRUE, FALSE, uid, 0, id, NoInput))

\* POST /api/transactions with the user's own token
IssueWrite ==
    \E uid \in UserIds :
        /\ nextTxId + Cardinality({j \in InFlight : reqs[j].op = "createTransaction"}) <= MaxTx
        /\ Issue(NewRequest("createTransaction", "POST", <<"/api", "/transactions">>, 0,
                            FALSE, TRUE, uid, 0, 0, Input(TRUE, "income", 1, 0, 1, "none")))

NextAdmins ==
    \/ IssueSetRole
    \/ IssueDeleteUser
    \/ IssueWrite
    \/ \E i \in InFlight : UpdateUserRole_Check(i)
    \/ \E i \in InFlight : UpdateUserRole_Update(i)
    \/ \E i \in InFlight : DeleteUser_Check(i)
    \/ \E i \in InFlight : DeleteUser_Delete(i)
    \/ \E i \in InFlight : CreateTransaction_Category(i)
    \/ \E i \in InFlight : CreateTransaction_Insert(i)
    \/ \E i \in InFlight : ClearCacheKeys(i)

SpecAdmins == InitAdmins /\ [][NextAdmins]_vars

-----------------------------------------------------------------------------
(* The type of a category and of the transactions that use it *)

\* PUT /api/categories/:id
IssueUpdateCategory ==
    \E uid \in UserIds, id \in CatIds, valid \in BOOLEAN, type \in Types :
        Issue(NewRequest("updateCategory", "PUT", <<"/api", "/categories", "/">>, 0,
                         TRUE, FALSE, uid, 0, id, Input(valid, type, 0, 0, 0, "none")))

NextType ==
    \/ IssueCategoryCreate
    \/ IssueCategoryUpdate
    \/ IssueUpdateCategory
    \/ IssueGetCategories
    \/ \E i \in InFlight : CacheMiddleware(i)
    \/ \E i \in InFlight : Handler(i)
    \/ \E i \in InFlight : ResJson(i)
    \/ \E i \in InFlight : CreateTransaction_Category(i)
    \/ \E i \in InFlight : CreateTransaction_Insert(i)
    \/ \E i \in InFlight : UpdateTransaction_Check(i)
    \/ \E i \in InFlight : UpdateTransaction_Category(i)
    \/ \E i \in InFlight : UpdateTransaction_Update(i)
    \/ \E i \in InFlight : UpdateCategory_Check(i)
    \/ \E i \in InFlight : UpdateCategory_Duplicate(i)
    \/ \E i \in InFlight : UpdateCategory_Update(i)
    \/ \E i \in InFlight : ClearCacheKeys(i)
    \/ \E i \in InFlight : ClearCacheDel(i)

SpecType == Init /\ [][NextType]_vars

-----------------------------------------------------------------------------
(* The process: startServer, the requests it serves, and a signal *)

\* connectRedis that lets the error of client.connect() through
ConnectRedis_Rethrows(connects) ==
    [redis |-> IF connects THEN "connected" ELSE "failed", threw |-> ~connects]

\* connectRedis: client.connect() resolves or rejects; the catch block logs
\* a warning and returns
ConnectRedis(connects) ==
    [redis |-> IF connects THEN "connected" ELSE "failed", threw |-> FALSE]

\* the names bound at the top level of the module that defines
\* gracefulShutdown; startServer's "const server" is local to its try block
ModuleScope == {"app", "PORT", "connectRedis", "gracefulShutdown", "startServer"}

\* the listener of SIGTERM and SIGINT: server.close(callback).  A name that
\* is not bound throws a ReferenceError out of the listener, and the
\* uncaught exception ends the process with code 1.
GracefulShutdown(p, signal) ==
    IF "server" \notin ModuleScope
    THEN [p EXCEPT !.pc = "exited", !.signal = signal, !.code = 1]
    ELSE [p EXCEPT !.pc = "server.close", !.signal = signal, !.closed = TRUE]

\* node server.js on the migrated database; the Redis client is created and
\* not connected, the keyspace holds what an earlier run left
InitStart ==
    /\ users = [u \in UserIds |-> IF u = 1 THEN "admin" ELSE "user"]
    /\ categories = [c \in CatIds |-> IF c % 2 = 1 THEN "income" ELSE "expense"]
    /\ transactions = [t \in TxIds |-> NoTx]
    /\ nextTxId = 1
    /\ isOpen = FALSE
    /\ cache \in Seeds
    /\ reqs = <<>>
    /\ events = 0
    /\ last = NoRequest
    /\ probe = NoProbe
    /\ proc = Process("startServer", "none")

\* startServer: await connectRedis(); an error it threw would be caught by
\* startServer, which exits with 1
StartServer_ConnectRedis ==
    /\ proc.pc = "startServer"
    /\ \E connects \in BOOLEAN :
        LET c == ConnectRedis(connects)
        IN  /\ isOpen' = connects
            /\ proc' = IF c.threw
                       THEN [proc EXCEPT !.pc = "exited", !.redis = c.redis, !.code = 1]
                       ELSE [proc EXCEPT !.pc = "app.listen", !.redis = c.redis]
    /\ UNCHANGED <<users, categories, transactions, nextTxId, cache, reqs, events, last, probe>>

\* startServer: app.listen(PORT), process.on('SIGTERM'), process.on('SIGINT')
StartServer_Listen ==
    /\ proc.pc = "app.listen"
    /\ proc' = [proc EXCEPT !.pc = "listening"]
    /\ UNCHANGED <<users, categories, transactions, nextTxId, isOpen, cache, reqs, events,
                   last, probe>>

\* SIGTERM or SIGINT reaches the listening process
Signal ==
    /\ proc.pc = "listening"
    /\ \E signal \in {"SIGTERM", "SIGINT"} : proc' = GracefulShutdown(proc, signal)
    /\ UNCHANGED <<users, categories, transactions, nextTxId, isOpen, cache, reqs, events,
                   last, probe>>

\* the event loop runs a request
Serving == proc.pc = "listening"

\* GET /api/categories and GET /api/transactions with the token of user 2
IssueStartRetrieval ==
    \E route \in {g \in GetRoutes : /\ g.op \in {"getCategories", "getTransactions"}
                                     /\ g.query_user_id = 0} :
        Issue(NewRequest(route.op, "GET", route.url, route.ttl, route.admin, FALSE,
                         2, route.query_user_id, route.id, NoInput))

\* POST /api/transactions with the token of user 2
IssueStartCreate ==
    /\ nextTxId + Cardinality({j \in InFlight : reqs[j].op = "createTransaction"}) <= MaxTx
    /\ Issue(NewRequest("createTransaction", "POST", <<"/api", "/transactions">>, 0,
                        FALSE, TRUE, 2, 0, 0, Input(TRUE, "income", 1, 0, 1, "none")))

NextStart ==
    \/ StartServer_ConnectRedis
    \/ StartServer_Listen
    \/ Signal
    \/ Serving /\ IssueStartRetrieval
    \/ Serving /\ IssueStartCreate
    \/ Serving /\ \E i \in InFlight : CacheMiddleware(i)
    \/ Serving /\ \E i \in InFlight : Handler(i)
    \/ Serving /\ \E i \in InFlight : ResJson(i)
    \/ Serving /\ \E i \in InFlight : CreateTransaction_Category(i)
    \/ Serving /\ \E i \in InFlight : CreateTransaction_Insert(i)
    \/ Serving /\ \E i \in InFlight : ClearCacheKeys(i)
    \/ Serving /\ \E i \in InFlight : ClearCacheDel(i)

SpecStart == InitStart /\ [][NextStart]_vars

-----------------------------------------------------------------------------
(* getTransactions: page and limit *)

\* the characters a query parameter is made of: a sign, digits, a letter
QueryChars == {"-", "0", "1", "2", "5", "a"}
DigitValue(c) ==
    CASE c = "0" -> 0 [] c = "1" -> 1 [] c = "2" -> 2 [] c = "5" -> 5

NaN == [nan |-> TRUE, value |-> 0]

\* the digits at the head of s, read on from the value acc; none yet read
\* while fresh
RECURSIVE ParseDigits(_, _, _)
ParseDigits(s, acc, fresh) ==
    IF s = <<>> \/ Head(s) \in {"-", "a"}
    THEN IF fresh THEN NaN ELSE [nan |-> FALSE, value |-> acc]
    ELSE ParseDigits(Tail(s), 10 * acc + DigitValue(Head(s)), FALSE)

\* parseInt(s): an optional sign, then the longest run of digits; NaN when
\* there is none (and for an absent parameter, <<>>)
ParseInt(s) ==
    IF s # <<>> /\ Head(s) = "-"
    THEN LET p == ParseDigits(Tail(s), 0, TRUE)
         IN  IF p.nan THEN NaN ELSE [nan |-> FALSE, value |-> 0 - p.value]
    ELSE ParseDigits(s, 0, TRUE)

\* parseInt(s) || d: NaN and 0 are falsy
OrDefault(p, d) == IF p.nan \/ p.value = 0 THEN d ELSE p.value

MathMin(a, b) == IF a < b THEN a ELSE b

\* Math.ceil(a / b) for a >= 0 and b # 0; -0 is 0
MathCeilDiv(a, b) == IF b > 0 THEN 0 - ((0 - a) \div b) ELSE 0 - (a \div (0 - b))

\* const page = parseInt(req.query.page) || 1
PageOf(query) == OrDefault(ParseInt(query.page), 1)

\* const limit = Math.min(parseInt(req.query.limit) || 10, 100)
LimitOf(query) == MathMin(OrDefault(ParseInt(query.limit), 10), 100)

\* const offset = (page - 1) * limit
OffsetOf(query) == (PageOf(query) - 1) * LimitOf(query)

NoPagination ==
    [currentPage |-> 0, totalPages |-> 0, totalItems |-> 0, itemsPerPage |-> 0,
     hasNextPage |-> FALSE, hasPrevPage |-> FALSE]

\* getTransactions for a query, with totalItems rows counted: the COUNT(*),
\* then SELECT ... LIMIT limit OFFSET offset, which PostgreSQL refuses when
\* either is negative (the catch block answers 500), then the pagination of
\* the response and the number of rows in it
Paginate(query, totalItems) ==
    LET page == PageOf(query)
        limit == LimitOf(query)
        offset == OffsetOf(query)
        totalPages == MathCeilDiv(totalItems, limit)
        left == IF totalItems > offset THEN totalItems - offset ELSE 0
    IN  IF limit < 0 \/ offset < 0
        THEN [status |-> 500, rows |-> 0, pagination |-> NoPagination]
        ELSE [status |-> 200, rows |-> MathMin(limit, left),
              pagination |-> [currentPage |-> page, totalPages |-> totalPages,
                              totalItems |-> totalItems, itemsPerPage |-> limit,
                              hasNextPage |-> page < totalPages,
                              hasPrevPage |-> page > 1]]

\* what a client can send as page and as limit: nothing, or some characters
PageQueries == UNION {[1..n -> QueryChars \ {"5"}] : n \in 0..MaxPageLen}
LimitQueries == UNION {[1..n -> QueryChars] : n \in 0..MaxLimitLen}

\* GET /api/transactions?page=..&limit=.. reaches getTransactions
GetTransactionsPage ==
    /\ probe = NoProbe
    /\ \E page \in PageQueries, limit \in LimitQueries, totalItems \in 0..MaxItems :
        LET query == [page |-> page, limit |-> limit]
        IN  probe' = [query |-> query, totalItems |-> totalItems,
                      page |-> PageOf(query), limit |-> LimitOf(query),
                      response |-> Paginate(query, totalItems)]
    /\ UNCHANGED <<users, categories, transactions, nextTxId, isOpen, cache, reqs, events,
                   last, proc>>

SpecPage == Init /\ [][GetTransactionsPage]_vars

-----------------------------------------------------------------------------
(* Properties *)

Done(r) == r.pc = "done"
ReturnsHandled(r) == r.status = r.handled.status /\ r.payload = r.handled.body

\* C1: once the invalidation of a committed create, update or delete has
\* completed, a retrieval issued afterwards never returns the pre-mutation
\* payload.  (Spec; the retrieval is the request that follows the mutation,
\* nothing else touches the store while it is served.)
C1_NoStaleReadAfterInvalidation ==
    (Done(last) /\ IsRetrieval(last) /\ last.pre \in InvalidatingOps /\ last.quiet)
        => ~(last.via = "hit" /\ last.payload # last.fresh.body)

\* C2: a GET answered through cacheMiddleware and issued again with the same
\* URL and principal, the store open, its entry neither invalidated nor
\* expired in between, is answered with the payload of the first answer and
\* without a call of the handler.  (Spec)
C2_RepeatedGetIsServedFromCache ==
    (Done(last) /\ IsRetrieval(last) /\ last.hasPrior /\ last.quiet
        /\ last.via \notin {"none", "error"})
        => (last.via = "hit" /\ last.payload = last.prior /\ last.calls = 0)

C2_Witness ==
    /\ Done(last) /\ last.op = "getTransactions" /\ last.hasPrior /\ last.quiet
    /\ last.via = "hit" /\ last.calls = 0
    /\ last.prior = last.payload /\ last.payload.data # {}

\* C3: the cache key is a function of the URL and the principal, and an
\* injective one: a request with another URL or another principal gets
\* another key.  (SpecKey)
C3_KeyIsInjective ==
    probe # NoProbe =>
        /\ probe.key = CacheKey(probe.url, probe.user)
        /\ \A url \in ProbeUrls, user \in Principals :
             (CacheKey(url, user) = probe.key) <=> (url = probe.url /\ user = probe.user)

C3_Witness ==
    /\ probe.url = <<"/api", ":", "1">> /\ probe.user.id = 12
    /\ probe.key = <<"cache", ":", "/api", ":", "1", ":", "1", "2">>

\* C4: a GET served through the cache, by a hit or by a miss, and whose
\* payload is the one the handler answers on the rows as they are, has the
\* status the handler answers with.  (Spec)
C4_CachingIsTransparent ==
    (Done(last) /\ IsRetrieval(last) /\ last.via \in {"hit", "miss"}
        /\ last.payload = last.fresh.body)
        => last.status = last.fresh.status

\* C5: when client.get fails, the stored value is not JSON, or client.setEx
\* fails, the request goes on to the handler and the caller gets the status
\* and the body of the handler, from one call of it.  (SpecMw)
C5_CacheErrorsFailOpen ==
    /\ \A i \in InFlight : reqs[i].via = "error" => reqs[i].pc \in {"handler", "json"}
    /\ (Done(last) /\ (last.via = "error" \/ (last.sets > 0 /\ ~last.stored)))
          => (last.calls = 1 /\ ReturnsHandled(last))

C5_Witness ==
    /\ Done(last) /\ last.via = "error" /\ last.calls = 1
    /\ last.key \in DOMAIN cache /\ ~JSONparses(cache[last.key].value)
    /\ last.status = 200 /\ last.payload.data # {}

\* C6: a request whose method is not GET, and a request that finds the store
\* not connected, make no get and no set on the store, and the caller gets
\* the status and the body of the handler, from one call of it.  (SpecMw)
C6_SkipsWithoutTouchingTheStore ==
    /\ \A i \in InFlight :
         (reqs[i].pc \in {"handler", "json"}
            /\ (reqs[i].method # "GET" \/ ~reqs[i].wasOpen))
            => (reqs[i].via = "skip" /\ reqs[i].gets = 0 /\ reqs[i].sets = 0
                  /\ ~CachesResponse(reqs[i]))
    /\ (Done(last) /\ last.via # "none" /\ (last.method # "GET" \/ ~last.wasOpen))
          => (last.via = "skip" /\ last.gets = 0 /\ last.sets = 0
                /\ last.calls = 1 /\ ReturnsHandled(last))

C6_Witness ==
    /\ Done(last) /\ last.method = "POST" /\ last.wasOpen /\ isOpen
    /\ last.via = "skip" /\ last.calls = 1
    /\ CacheKey(last.url, last.user) \in DOMAIN cache

\* C11: a read that missed before a mutation and writes its entry after the
\* mutation's invalidation leaves the pre-mutation payload in the store; such
\* an entry never outlives its TTL counted from that write, and the next
\* invalidation whose pattern matches its key deletes it.  (SpecTtl; for the
\* invalidation: the store open, no clearCache call failed, nothing else
\* touched the store meanwhile.)
C11_StaleEntriesAreBounded ==
    /\ \A k \in DOMAIN cache : cache[k].raced => cache[k].age < cache[k].ttl
    /\ (Done(last) /\ IsMutation(last) /\ last.committed /\ last.clean /\ last.quiet)
          => \A p \in last.patterns : \A k \in Keys(cache, p) : ~cache[k].raced

C11_Witness ==
    /\ Done(last) /\ last.op = "getTransactions" /\ last.via = "hit" /\ last.calls = 0
    /\ last.key \in DOMAIN cache /\ cache[last.key].raced
    /\ last.payload = JSONparse(cache[last.key].value)
    /\ last.payload # last.fresh.body

\* C12: requests that observe a miss are not deduplicated: each of them calls
\* the handler once and, the store open, writes the entry; after each write
\* the key holds the payload of that write.  (SpecTtl)
C12_ConcurrentMissesAreNotDeduplicated ==
    /\ [](\A i \in InFlight :
            reqs[i].via = "miss"
               => /\ reqs[i].capture
                  /\ reqs[i].pc \in {"handler", "json"}
                  /\ reqs[i].calls = (IF reqs[i].pc = "json" THEN 1 ELSE 0))
    /\ [](Done(last) /\ last.via = "miss" => last.calls = 1)
    /\ [][(last' # last /\ last'.via = "miss")
            => /\ isOpen => last'.sets = 1
               /\ last'.stored
                    => /\ last'.key \in DOMAIN cache'
                       /\ cache'[last'.key].value = JSONstringify(last'.payload)]_vars

C12_Witness ==
    /\ Done(last) /\ last.op = "getTransactions" /\ last.via = "miss"
    /\ last.calls = 1 /\ last.sets = 1 /\ last.stored /\ last.overwrote
    /\ last.key \in DOMAIN cache
    /\ cache[last.key].value = JSONstringify(last.payload)
    /\ last.payload.data # {}

\* C13: every entry is written with the TTL of its route (transactions list
\* 300, single transaction 600, categories 3600, analytics 900, admin users
\* 300), a write to a key starts its TTL anew, and no entry is in the store,
\* or served, once it has lived its TTL.  (SpecTtl)
C13_EntriesLiveTheirRouteTtl ==
    /\ [](\A k \in DOMAIN cache :
            /\ cache[k].age < cache[k].ttl
            /\ cache[k].ttl = (CASE cache[k].op = "getTransactions" -> 300
                                 [] cache[k].op = "getTransaction" -> 600
                                 [] cache[k].op = "getCategories" -> 3600
                                 [] cache[k].op = "getDashboardSummary" -> 900
                                 [] cache[k].op = "getUsers" -> 300))
    /\ [][(last' # last /\ last'.via = "miss" /\ last'.stored)
            => (last'.key \in DOMAIN cache' /\ cache'[last'.key].age = 0
                  /\ cache'[last'.key].ttl = last'.ttl)]_vars

C13_Witness ==
    /\ Done(last) /\ last.op = "getTransaction" /\ last.via = "miss" /\ last.overwrote
    /\ last.key \in DOMAIN cache /\ cache[last.key].age = TickSeconds
    /\ \E k \in DOMAIN cache : cache[k].op = "getCategories" /\ cache[k].age > 900

\* C14: clearing the cache never fails the mutation that calls it: with the
\* store not connected, or client.keys or client.del failing, a mutation
\* whose database write has committed still answers its success status and
\* body.  (SpecTtl)
C14_ClearingNeverFailsTheCaller ==
    /\ \A i \in InFlight :
         reqs[i].committed => (reqs[i].status \in {200, 201} /\ ReturnsHandled(reqs[i]))
    /\ (Done(last) /\ IsMutation(last) /\ last.committed)
          => (last.status \in {200, 201} /\ ReturnsHandled(last) /\ last.payload.success)

C14_Witness ==
    /\ Done(last) /\ last.op = "createTransaction" /\ last.committed
    /\ isOpen /\ ~last.clean /\ last.dels = 0 /\ last.status = 201
    /\ Keys(cache, TransactionPattern(last.target)) # {}

\* request i takes a step
Moved(i) ==
    \/ i \notin DOMAIN reqs'
    \/ reqs'[i].pc # reqs[i].pc
    \/ reqs'[i].pending # reqs[i].pending

AimedAtAnothersRow(r) ==
    /\ Done(r) /\ r.op \in {"updateTransaction", "deleteTransaction"}
    /\ r.user # NoUser /\ r.user.role # "admin"
    /\ r.body.valid /\ r.status # 500
    /\ r.id \in TxIds /\ transactions[r.id] # NoTx
    /\ transactions[r.id].user_id # r.user.id

C17_ReadOnlyUsersCannotWrite ==
    /\ [](\A i \in InFlight : reqs[i].write => reqs[i].user.role # "read-only")
    /\ []((Done(last) /\ last.write /\ last.user.role = "read-only")
            => /\ last.status = 403
               /\ ~last.committed /\ last.calls = 0
               /\ last.patterns = {} /\ last.dels = 0 /\ last.sets = 0)
    /\ [][(transactions' # transactions \/ cache' # cache)
            => \E i \in InFlight :
                  /\ Moved(i)
                  /\ ~(reqs[i].write /\ reqs[i].user.role = "read-only")]_vars

C17_Witness ==
    /\ Done(last) /\ last.op = "createTransaction" /\ last.write
    /\ last.body.valid /\ last.user = [id |-> 2, role |-> "read-only"]
    /\ last.status = 403 /\ users[2] = "read-only"

\* C18: an admin-only operation is never executed for a principal whose role
\* is not admin: requireRole answers 403 (401 without a principal) before
\* the cache lookup and before the controller, so no request of such a
\* principal is ever in the middleware or a handler of an admin route, its
\* answer carries no data, fresh or cached, and no step that changes the
\* users is a step of such a principal.  (SpecAccess; the role is the one
\* authenticateToken read from the users table for the request, not one
\* carried by the token.)
C18_AdminRoutesNeedTheAdminRole ==
    /\ [](\A i \in InFlight : reqs[i].admin => reqs[i].user.role = "admin")
    /\ []((Done(last) /\ last.admin /\ last.user.role # "admin" /\ last.status # 500)
            => /\ last.status = (IF last.user = NoUser THEN 401 ELSE 403)
               /\ last.gets = 0 /\ last.calls = 0 /\ last.via = "none"
               /\ last.payload.data = {} /\ ~last.committed)
    /\ [][users' # users
            => \E i \in InFlight : Moved(i) /\ reqs[i].admin /\ reqs[i].user.role = "admin"]_vars

C18_Witness ==
    /\ Done(last) /\ last.op = "getUsers" /\ last.admin
    /\ last.user = [id |-> 2, role |-> "user"]
    /\ last.status = 403 /\ last.gets = 0
    /\ \E k \in DOMAIN cache : cache[k].admin /\ cache[k].op = "getUsers"

\* some stored transaction refers to category c
Referenced(c) ==
    \E t \in TxIds : transactions[t] # NoTx /\ transactions[t].category_id = c

OwnEntries(u) ==
    {k \in DOMAIN cache :
        /\ cache[k].uid = u
        /\ cache[k].op \in {"getTransactions", "getTransaction", "getDashboardSummary"}}

\* the answered request is a committed create, update or delete by a user of
\* a transaction of that user
OwnMutation(r) ==
    /\ Done(r) /\ r.op \in InvalidatingOps /\ r.committed
    /\ r.status \in {200, 201} /\ r.target = r.user.id

CachedCounterpart(op) ==
    IF op = "updateUserRole" THEN <<"/api", "/admin", "/users">>
    ELSE <<"/api", "/transactions">>

\* C7: every mutation of a resource with a cached retrieval route, once
\* committed, calls clearCache with a pattern that matches the keys of that
\* route.  (Spec)
C7_CommittedMutationsClearTheCache ==
    (Done(last) /\ IsMutation(last) /\ last.committed)
        => \E p \in last.patterns, u \in UserIds :
              GlobMatch(p, CacheKey(CachedCounterpart(last.op), [id |-> u, role |-> "none"]))

\* C8: a create, update or delete that fails makes no clearCache call and
\* deletes no key of the store.  (Spec)
C8_FailedMutationsLeaveTheCache ==
    /\ \A i \in InFlight :
         (IsMutation(reqs[i]) /\ ~reqs[i].committed)
            => /\ reqs[i].pc \notin {"clearCache:keys", "clearCache:del"}
               /\ reqs[i].patterns = {} /\ reqs[i].pending = <<>> /\ reqs[i].dels = 0
    /\ (Done(last) /\ IsMutation(last) /\ ~last.committed)
          => (last.patterns = {} /\ last.dels = 0 /\ last.status >= 400)

C8_Witness ==
    /\ Done(last) /\ last.op = "createTransaction" /\ ~last.committed
    /\ last.status = 500 /\ last.target = 2 /\ isOpen
    /\ Keys(cache, TransactionPattern(last.target)) # {}

C10_OnlySuccessfulRetrievalsCached ==
    \A k \in DOMAIN cache : cache[k].status = 200

\* C21: after a mutation of a transaction of user U has committed and its
\* clearCache calls have run to their end, an admin other than U who holds a
\* cached view of U's transactions (GET /api/transactions?user_id=U) does
\* not get the pre-mutation payload on the next GET of that view.  (Spec;
\* the GET is the request that follows the mutation, nothing else touches
\* the store while it is served.)
C21_AdminViewsOfAUserAreFresh ==
    (Done(last) /\ IsRetrieval(last) /\ last.pre \in InvalidatingOps /\ last.quiet
        /\ last.user.role = "admin" /\ last.query_user_id \notin {0, last.user.id})
        => ~(last.via = "hit" /\ last.payload # last.fresh.body)

\* C22: a principal whose role is not admin never receives a transaction of
\* another user from GET /api/transactions or GET /api/transactions/:id,
\* also when it was an admin before, read the transaction then, was demoted
\* and repeats the URL while the earlier response is cached.  (SpecDemote;
\* the role is the one authenticateToken read for the request.)
C22_NonAdminsGetOnlyTheirOwnRows ==
    (Done(last) /\ last.op \in {"getTransactions", "getTransaction"}
        /\ last.user # NoUser /\ last.user.role # "admin" /\ last.status = 200)
        => \A row \in last.payload.data :
              transactions[row.id].user_id = last.user.id

\* C23: an admin user exists in every state reached by interleaved
\* updateUserRole and deleteUser requests of admins.  (SpecAdmins)
C23_AnAdminRemains ==
    \E u \in UserIds : users[u] = "admin"

\* C24: in every state the type of each stored transaction is the type of
\* the category it refers to, also after category updates.  (SpecType)
C24_TransactionTypeIsCategoryType ==
    \A t \in TxIds :
        (transactions[t] # NoTx /\ categories[transactions[t].category_id] # NoRow)
            => transactions[t].type = categories[transactions[t].category_id]

\* C25: a request that passes through cacheMiddleware either is answered
\* with the cached payload without a call of the handler, or goes to the
\* handler; the handler is called at most once, and a request is answered
\* once: the request that is answered leaves the chain, whatever client.get,
\* JSON.parse and client.setEx do.  (SpecMw)
C25_HitOrHandlerNeverBoth ==
    /\ [](\A i \in InFlight : reqs[i].calls <= 1 /\ reqs[i].via # "hit")
    /\ []((Done(last) /\ last.via # "none")
            => \/ /\ last.via = "hit" /\ last.calls = 0
                  /\ last.payload = last.handled.body
               \/ /\ last.via \in {"miss", "skip", "error"} /\ last.calls = 1
                  /\ ReturnsHandled(last))
    /\ [](last.n \notin InFlight)
    /\ [][\A i \in InFlight :
            i \notin DOMAIN reqs' => (last'.n = i /\ last'.pc = "done")]_vars

C25_Witness ==
    /\ Done(last) /\ last.method = "GET" /\ last.via = "hit"
    /\ last.gets = 1 /\ last.calls = 0 /\ last.sets = 0 /\ last.status = 200

\* C26: a step of clearTransactionCache(U) or clearAnalyticsCache(U) removes
\* from the store only entries of principal U for a URL with '/transactions',
\* respectively '/analytics'; the entries of every other principal and the
\* entries of U for other routes stay as they are.  (SpecScope)
C26_ClearingIsScopedToThePrincipal ==
    [][\A k \in DOMAIN cache :
         /\ k \in DOMAIN cache' => cache'[k] = cache[k]
         /\ k \notin DOMAIN cache'
              => \E i \in InFlight :
                    /\ Moved(i) /\ reqs[i].pc = "clearCache:del"
                    /\ cache[k].uid = reqs[i].target
                    /\ \/ /\ cache[k].op \in {"getTransactions", "getTransaction"}
                          /\ \E p \in reqs[i].patterns : p[4] = "/transactions"
                       \/ /\ cache[k].op = "getDashboardSummary"
                          /\ \E p \in reqs[i].patterns : p[4] = "/analytics"]_vars

C26_Witness ==
    /\ Done(last) /\ last.op = "clearCache" /\ last.target = 2
    /\ \E p \in last.patterns : p[4] = "/transactions"
    /\ last.matched = 1 /\ last.dels = 1
    /\ Cardinality(DOMAIN cache) = 5
    /\ \A k \in DOMAIN cache : ~(cache[k].uid = 2 /\ cache[k].op = "getTransactions")

\* the request that this step issues, once authenticateToken and the guards
\* have run: answered at once, or in flight
Issued(r) ==
    /\ r.n = events + 1
    /\ \/ r = [last' EXCEPT !.pc = "respond"] /\ last'.pc = "done" /\ last' # last
       \/ events + 1 \in DOMAIN reqs' \ DOMAIN reqs /\ r = reqs'[events + 1]

\* C27: every request with a valid token is authorized against the row of
\* its user as the users table holds it when the request arrives, whatever
\* the role was when the token was issued (SpecAdmins: every token was
\* issued to an admin): unless the lookup itself fails (500), a request
\* whose user has been deleted is answered 401, a request that goes on has
\* as its principal the stored id and role, a write of a user whose stored
\* role is read-only is answered 403, and a request to an admin route of a
\* user whose stored role is not admin is answered 403.
C27_AuthorizedAgainstTheStoredRow ==
    [][\A r \in {last'} \cup {reqs'[i] : i \in DOMAIN reqs'} :
         \A r0 \in {[r EXCEPT !.pc = "respond"], r} :
           (Issued(r0) /\ ~(r0.status = 500 /\ r0.user = NoUser))
             => /\ users[r0.uid] = NoRow
                    => r0.pc = "respond" /\ r0.status = 401 /\ r0.user = NoUser
                /\ users[r0.uid] # NoRow
                    => /\ r0.user = [id |-> r0.uid, role |-> users[r0.uid]]
                       /\ (r0.admin /\ users[r0.uid] # "admin")
                            => r0.pc = "respond" /\ r0.status = 403
                       /\ (~r0.admin /\ r0.write /\ users[r0.uid] = "read-only")
                            => r0.pc = "respond" /\ r0.status = 403]_vars

\* a user whom an admin made read-only was refused a write, and a user who
\* is no admin any more was refused an admin route
C27_Witness ==
    /\ Done(last) /\ last.n > 1 /\ last.status = 403
    /\ users[last.uid] \in {"read-only", "user"}
    /\ \/ last.op = "createTransaction" /\ users[last.uid] = "read-only"
       \/ last.admin
    /\ last.user = [id |-> last.uid, role |-> users[last.uid]]

\* C28: when client.connect() fails at startup, startServer goes on to
\* app.listen and the process ends only on a signal; from then on the client
\* stays closed, no request runs a command of the store (no get, no setEx,
\* no keys, no del), the keyspace is left as it was, every retrieval that
\* passed authentication is answered by its handler, called once, with the
\* handler's own response, and a committed create is answered 201 with its
\* clearCache calls returning at once.  (SpecStart)
C28_StartsAndServesWithoutRedis ==
    /\ [](proc.redis = "failed" =>
            /\ proc.pc \in {"app.listen", "listening", "exited"}
            /\ proc.pc = "exited" => proc.signal # "none"
            /\ ~isOpen
            /\ \A r \in {last} \cup {reqs[i] : i \in InFlight} :
                  /\ r.gets = 0 /\ r.sets = 0 /\ r.dels = 0 /\ r.matched = -1
                  /\ r.via \in {"none", "skip"} /\ ~r.stored /\ ~r.capture
                  /\ r.pc \notin {"clearCache:keys", "clearCache:del"}
            /\ (Done(last) /\ IsRetrieval(last) /\ last.user # NoUser)
                  => /\ last.via = "skip" /\ last.calls = 1
                     /\ Response(last.status, last.payload) = last.handled
            /\ (Done(last) /\ last.committed) => last.status = 201)
    /\ [][proc.redis = "failed" => cache' = cache]_vars

\* without Redis, a listing that the keyspace holds was answered by its
\* handler, and a create was committed and answered
C28_Witness ==
    /\ proc = Process("listening", "failed")
    /\ Done(last) /\ last.n > 1
    /\ \/ /\ last.op = "getCategories" /\ last.status = 200 /\ last.via = "skip"
          /\ CacheKey(last.url, last.user) \in DOMAIN cache
       \/ /\ last.op = "createTransaction" /\ last.committed /\ last.status = 201
          /\ last.patterns # {}

\* C30, as stated: a process that ended after SIGTERM or SIGINT had closed
\* the HTTP server, and ended with code 0, or with code 1 when closing the
\* server reported an error (an error of server.close is not modelled, so:
\* with code 0).  (SpecStart)
C30_SignalClosesTheServerThenExits ==
    (proc.pc = "exited" /\ proc.signal # "none") => (proc.closed /\ proc.code = 0)

\* C29, as stated: for every GET /api/transactions, whatever page and limit
\* are sent, the page size used is the requested limit when that is a number
\* from 1 to 100, is 10 when limit is absent or not a number, and is at
\* least 1 and at most 100; and a response that carries a pagination has
\* totalPages = ceil(totalItems / itemsPerPage), hasNextPage iff currentPage
\* < totalPages, hasPrevPage iff currentPage > 1, and currentPage >= 1.
\* (SpecPage)
C29_PageSizeAndPagination ==
    probe # NoProbe =>
        LET requested == ParseInt(probe.query.limit)
            p == probe.response.pagination
        IN  /\ probe.limit >= 1 /\ probe.limit <= 100
            /\ requested.nan => probe.limit = 10
            /\ (~requested.nan /\ requested.value \in 1..100)
                  => probe.limit = requested.value
            /\ probe.response.status = 200
                  => /\ p.itemsPerPage = probe.limit
                     /\ p.totalItems = probe.totalItems
                     /\ p.totalPages * p.itemsPerPage >= p.totalItems
                     /\ (p.totalPages - 1) * p.itemsPerPage < p.totalItems
                     /\ p.hasNextPage <=> p.currentPage < p.totalPages
                     /\ p.hasPrevPage <=> p.currentPage > 1
                     /\ p.currentPage >= 1

====
